---- MODULE Spec2Model ----
(***************************************************************************)
(* KubeForge agent (src/src/index.ts): the control loop of main(), the     *)
(* control-plane requests register / poll / submitResult, the signal       *)
(* handlers, and executeCommand with its apply_manifest reconciler.        *)
(*                                                                         *)
(* main() is one async function, so its state is the await it is parked    *)
(* at (pc).  Everything the code does between two awaits runs without      *)
(* interleaving (signal handlers are macrotasks), so one action is "the    *)
(* awaited call settles, and main runs up to its next await".              *)
(***************************************************************************)
EXTENDS Integers, Sequences, FiniteSets, TLC

\* ---------------------------------------------------------------- bounds
MaxCmds == 2        \* commands the control plane hands out in one run
MaxRegFails == 2    \* consecutive failing registration attempts
MaxPollFails == 2   \* consecutive failing polls
MaxKinds == 3       \* fetchers of list_resources that are modelled (of 11)
MaxRequested == 3   \* items of one get_manifests request
MaxBatch == 2       \* manifests in one apply_manifest batch (SpecApply)

\* ------------------------------------------------------ program constants
RegRetryDelay == 5000   \* setTimeout(r, 5000) of the registration loop
PollBackoff == 3000     \* setTimeout(r, 3000) of the poll loop's catch

NoId == "null"                  \* agentId: string | null = null
AgentIds == {"agent-1", "agent-2"}
\* data.agentId of a registration response (line 48): an identity, or
\* nothing when the response carries none (falsy, as null is, at line 465)
ReturnedIds == AgentIds \cup {NoId}
NoCmd == [id |-> 0]
NoTimer == 0

VARIABLES
  pc,         \* the await main() is parked at ("stopped": main returned)
  agentId,    \* let agentId
  running,    \* let running
  cmd,        \* const cmd of the current loop iteration
  inflight,   \* control-plane requests sent and not yet settled
  executing,  \* ids of the commands whose executeCommand has not settled
  timer,      \* milliseconds of the pending setTimeout, NoTimer if none
  pollBit,    \* parity of the number of poll requests issued
  regFails,   \* consecutive failed registrations (reset by a success)
  pollFails,  \* consecutive failed polls (reset by a successful poll)
  delivered,  \* commands handed out by the control plane so far
  cpAgent,    \* the identity the control plane assigned, NoId before
  submitted,  \* statuses of the result requests sent for command `delivered`
  idx,        \* apply_manifest: position of manifestStr in manifests
  obj,        \* apply_manifest: the parsed (and defaulted) manifest
  liveObj,    \* apply_manifest: what client.read returned, or null
  results,    \* apply_manifest: const results
  logs,       \* apply_manifest: const logs
  cluster,    \* the resources stored in the cluster
  k8sReqs,    \* cluster requests issued for the current command
  threw,      \* <<manifest, step, message>> of each step of it that threw
  writes,     \* <<manifest, what>> of each write of another client
  pending,    \* list_resources: the fetchers Promise.allSettled waits for
  resources,  \* list_resources: const resources
  docs,       \* get_manifests: const docs
  fetched,    \* what each list or read call of the command came back with
  liveArg,    \* diff engine on its own: the first argument of the call
  desiredArg, \* diff engine on its own: the document passed (second argument)
  outArg,     \* diff engine on its own: the lines, or the value returned
  sigAt       \* where main() was parked when the signal arrived, or "none"

loopVars == <<pc, agentId, running, cmd, inflight, executing, timer, pollBit,
              regFails, pollFails, delivered, cpAgent, submitted, sigAt>>
applyVars == <<idx, obj, liveObj, results, logs>>
queryVars == <<pending, resources, docs, fetched>>
diffVars == <<liveArg, desiredArg, outArg>>
vars == <<pc, agentId, running, cmd, inflight, executing, timer, pollBit,
          regFails, pollFails, delivered, cpAgent, submitted,
          idx, obj, liveObj, results, logs, cluster, k8sReqs, threw, writes,
          sigAt,
          pending, resources, docs, fetched,
          liveArg, desiredArg, outArg>>

\* ------------------------------------------------------------ documents
\* A parsed YAML/JSON value.  A map keeps its keys in insertion order, as a
\* JavaScript object does: it is a sequence of <<key, value>> pairs.
Str(s) == <<"str", s>>
Map(pairs) == <<"map", pairs>>
Arr(items) == <<"arr", items>>
Null == <<"null">>
Undefined == <<"undefined">>

IsMap(v) == v[1] = "map"
IsArr(v) == v[1] = "arr"
IsStr(v) == v[1] = "str"
IsNullish(v) == v[1] \in {"null", "undefined"}
IsScalar(v) == v[1] \in {"str", "num", "bool"}
\* !!v
Truthy(v) ==
  CASE IsNullish(v) -> FALSE
    [] v[1] = "str" -> v[2] # ""
    [] v[1] = "num" -> v[2] # 0
    [] v[1] = "bool" -> v[2]
    [] OTHER -> TRUE
\* typeof v
TypeOf(v) ==
  CASE v[1] = "str" -> "string"
    [] v[1] = "num" -> "number"
    [] v[1] = "bool" -> "boolean"
    [] v[1] = "undefined" -> "undefined"
    [] OTHER -> "object"
\* mutant: no two values are identical
StrictEq_Never(a, b) == FALSE
\* a === b for two primitives; two objects are never the same reference here
StrictEq(a, b) ==
  /\ a[1] = b[1]
  /\ \/ IsNullish(a)
     \/ IsScalar(a) /\ a[2] = b[2]

Keys(m) == [i \in 1..Len(m[2]) |-> m[2][i][1]]            \* Object.keys
HasKey(m, k) == \E i \in 1..Len(m[2]) : m[2][i][1] = k    \* k in m
\* m[k]: undefined when the key is absent, or when m is no object
Get(m, k) ==
  IF IsMap(m) /\ HasKey(m, k)
    THEN m[2][CHOOSE i \in 1..Len(m[2]) : m[2][i][1] = k][2]
    ELSE Undefined
\* m[k] = v: overwrites in place, a new key goes last
Put(m, k, v) ==
  IF HasKey(m, k)
    THEN Map([i \in 1..Len(m[2]) |->
               IF m[2][i][1] = k THEN <<k, v>> ELSE m[2][i]])
    ELSE Map(Append(m[2], <<k, v>>))
\* delete m[k]
Delete(m, k) == Map(SelectSeq(m[2], LAMBDA kv : kv[1] # k))
StrOf(v) == IF IsStr(v) THEN v[2] ELSE "undefined"   \* `${v}` of a string or undefined

\* ------------------------------------------------- cleaning and diffing
ServerManaged == {"managedFields", "resourceVersion", "uid",
                  "creationTimestamp", "generation", "selfLink", "status"}
LastApplied == "kubectl.kubernetes.io/last-applied-configuration"
Revision == "deployment.kubernetes.io/revision"

\* { ...v }: the own enumerable properties of v, an array's by index
Spread(v) ==
  CASE IsMap(v) -> v
    [] IsArr(v) -> Map([i \in 1..Len(v[2]) |-> <<ToString(i - 1), v[2][i]>>])
    [] OTHER -> Map(<<>>)

RECURSIVE cleanForDiff(_), cleanEntries(_)
\* mutant: the annotations are kept when they were not empty before the two
\* deletes
cleanEntries_TestsBeforeDelete(pairs) ==
  IF pairs = <<>> THEN <<>>
  ELSE LET k == Head(pairs)[1]
           v == Head(pairs)[2]
           rest == cleanEntries(Tail(pairs))
       IN  CASE k \in ServerManaged -> rest
             [] k = "annotations" /\ (IsMap(v) \/ IsArr(v)) ->
                  LET annotations == Delete(Delete(Spread(v), LastApplied), Revision)
                  IN  IF Len(v[2]) > 0
                        THEN <<<<k, annotations>>>> \o rest
                        ELSE rest
             [] IsNullish(v) -> rest
             [] OTHER -> <<<<k, cleanForDiff(v)>>>> \o rest
\* the for-loop of cleanForDiff over Object.entries(o)
cleanEntries(pairs) ==
  IF pairs = <<>> THEN <<>>
  ELSE LET k == Head(pairs)[1]
           v == Head(pairs)[2]
           rest == cleanEntries(Tail(pairs))
       IN  CASE k \in ServerManaged -> rest
             [] k = "annotations" /\ (IsMap(v) \/ IsArr(v)) ->
                  LET annotations == Delete(Delete(Spread(v), LastApplied), Revision)
                  IN  IF Len(annotations[2]) > 0
                        THEN <<<<k, annotations>>>> \o rest
                        ELSE rest
             [] IsNullish(v) -> rest
             [] OTHER -> <<<<k, cleanForDiff(v)>>>> \o rest
cleanForDiff(v) ==
  CASE IsArr(v) -> Arr([i \in 1..Len(v[2]) |-> cleanForDiff(v[2][i])])
    [] IsMap(v) -> Map(cleanEntries(v[2]))
    [] OTHER -> v

\* Strings are tokens; the characters a token stands for are given by its
\* length, and by its first 77 characters when it is longer than 80.
LongStrings == {"LONG-A", "LONG-B"}
StrLen(s) == IF s \in LongStrings THEN 100 ELSE 6
Prefix77(s) == "LONG"

\* Object.keys(v).length
KeysLen(v) ==
  CASE IsMap(v) \/ IsArr(v) -> Len(v[2])
    [] IsStr(v) -> StrLen(v[2])
    [] OTHER -> 0
MetaManaged == {"managedFields", "resourceVersion", "uid",
                "creationTimestamp", "generation", "selfLink"}
RECURSIVE DeleteAll(_, _)
DeleteAll(m, ks) ==
  IF ks = {} THEN m
  ELSE LET k == CHOOSE x \in ks : TRUE
       IN  DeleteAll(Delete(m, k), ks \ {k})
\* delete meta[k] when meta[k] is truthy and has no keys (lines 454-455)
DeleteIfEmpty(meta, k) ==
  IF Truthy(Get(meta, k)) /\ KeysLen(Get(meta, k)) = 0
    THEN Delete(meta, k) ELSE meta
cleanManifest(o) ==
  LET cleaned == Delete(Spread(o), "status")
      metadata == Get(cleaned, "metadata")
  IN  IF Truthy(metadata) /\ TypeOf(metadata) = "object"
        THEN LET meta == DeleteIfEmpty(
                           DeleteIfEmpty(DeleteAll(Spread(metadata), MetaManaged),
                                         "annotations"),
                           "labels")
             IN  Put(cleaned, "metadata", meta)
        ELSE cleaned

RECURSIVE SumSeq(_)
SumSeq(ns) == IF ns = <<>> THEN 0 ELSE Head(ns) + SumSeq(Tail(ns))

\* formatValue returns a string; the model keeps the string's parts and its
\* length: <<text, length>>.
RECURSIVE formatValue(_)
formatValue(v) ==
  CASE IsNullish(v) -> <<"null", 4>>
    [] v[1] = "str" ->
         IF StrLen(v[2]) > 80
           THEN <<<<"quoted", Prefix77(v[2]), "...">>, 82>>
           ELSE <<<<"quoted", v[2]>>, StrLen(v[2]) + 2>>
    [] v[1] \in {"num", "bool"} -> <<<<"lit", v[2]>>, 1>>
    [] IsArr(v) ->
         IF Len(v[2]) = 0 THEN <<"[]", 2>>
         ELSE LET items == [i \in 1..Len(v[2]) |-> formatValue(v[2][i])]
                  len == SumSeq([i \in 1..Len(items) |-> items[i][2]])
                           + 2 * (Len(items) - 1) + 2
              IN  IF len > 80 THEN <<<<"items", Len(v[2])>>, 9>>
                  ELSE <<<<"list", [i \in 1..Len(items) |-> items[i][1]]>>, len>>
    [] OTHER ->
         LET keys == Keys(v)
             pairs == [i \in 1..Len(keys) |-> formatValue(v[2][i][2])]
             len == SumSeq([i \in 1..Len(keys) |->
                              StrLen(keys[i]) + 2 + pairs[i][2]])
                      + 2 * (Len(keys) - 1) + 2
         IN  IF Len(keys) = 0 THEN <<"{}", 2>>
             ELSE IF Len(keys) <= 3 /\ len <= 80
               THEN <<<<"pairs", [i \in 1..Len(keys) |->
                                   <<keys[i], pairs[i][1]>>]>>, len>>
               ELSE <<<<"fields", Len(keys)>>, 10>>

\* A change line: marker, path, rendered value(s).  A path is the sequence
\* of its segments: <<"k", key>> for `.key`, <<"i", n>> for `[n]`.
Modify(path, live, desired) ==
  <<"~", path, formatValue(live)[1], formatValue(desired)[1]>>
Add(path, v) == <<"+", path, formatValue(v)[1]>>
Remove(path, v) == <<"-", path, formatValue(v)[1]>>
KeyPath(path, key) == Append(path, <<"k", key>>)
\* mutant: sequence elements are numbered from 1
IndexPath_OneBased(path, i) == Append(path, <<"i", i + 1>>)
IndexPath(path, i) == Append(path, <<"i", i>>)

Max(a, b) == IF a >= b THEN a ELSE b
\* new Set([...Object.keys(liveObj), ...Object.keys(desiredObj)])
AllKeys(live, desired) ==
  Keys(live) \o SelectSeq(Keys(desired), LAMBDA k : ~HasKey(live, k))

RECURSIVE deepDiff(_, _, _, _), diffArr(_, _, _, _, _), diffKeys(_, _, _, _, _)
\* the array loop, from index i (0-based in the code, so [i-1] in the path)
diffArr(live, desired, path, out, i) ==
  IF i > Max(Len(live[2]), Len(desired[2])) THEN out
  ELSE LET p == IndexPath(path, i - 1)
           o == IF i > Len(live[2]) THEN Append(out, Add(p, desired[2][i]))
                ELSE IF i > Len(desired[2])
                  THEN Append(out, Remove(p, live[2][i]))
                  ELSE deepDiff(live[2][i], desired[2][i], p, out)
       IN  diffArr(live, desired, path, o, i + 1)
\* the key loop over allKeys
diffKeys(live, desired, path, out, keys) ==
  IF keys = <<>> THEN out
  ELSE LET key == Head(keys)
           p == KeyPath(path, key)
           o == IF ~HasKey(live, key)
                  THEN Append(out, Add(p, Get(desired, key)))
                ELSE IF ~HasKey(desired, key)
                  THEN Append(out, Remove(p, Get(live, key)))
                  ELSE deepDiff(Get(live, key), Get(desired, key), p, out)
       IN  diffKeys(live, desired, path, o, Tail(keys))
deepDiff(live, desired, path, out) ==
  IF StrictEq(live, desired) THEN out
  ELSE IF TypeOf(live) # TypeOf(desired) \/ live[1] = "null"
          \/ desired[1] = "null" \/ TypeOf(live) # "object"
    THEN Append(out, Modify(path, live, desired))
  ELSE IF IsArr(live) /\ IsArr(desired)
    THEN diffArr(live, desired, path, out, 1)
  ELSE IF ~IsArr(live) /\ ~IsArr(desired)
    THEN diffKeys(live, desired, path, out, AllKeys(live, desired))
  ELSE Append(out, Modify(path, live, desired))

\* p.split('.').length: the dots written between segments plus the dots
\* inside the keys themselves
KeyDots(k) == IF k \in {"app.kubernetes.io/name"} THEN 3 ELSE 0
RECURSIVE PathDots(_)
PathDots(path) ==
  IF path = <<>> THEN 0
  ELSE LET seg == path[Len(path)]
           front == SubSeq(path, 1, Len(path) - 1)
       IN  PathDots(front)
             + (IF seg[1] = "k"
                  THEN KeyDots(seg[2]) + (IF front = <<>> THEN 0 ELSE 1)
                  ELSE 0)
\* mutant: the depth is counted two levels too deep
SplitLen_Deeper(path) == PathDots(path) + 3
SplitLen(path) == PathDots(path) + 1

RECURSIVE summarizeObject(_, _, _), summarizeEntries(_, _, _)
summarizeEntries(pairs, path, out) ==
  IF pairs = <<>> THEN out
  ELSE LET k == Head(pairs)[1]
           v == Head(pairs)[2]
           p == KeyPath(path, k)
           o == IF IsNullish(v) THEN out
                ELSE IF IsMap(v) /\ Len(v[2]) > 0
                  THEN IF SplitLen(p) < 5
                         THEN summarizeObject(v, p, out)
                         ELSE Append(out, Add(p, v))
                  ELSE Append(out, Add(p, v))
       IN  summarizeEntries(Tail(pairs), path, o)
summarizeObject(v, path, out) ==
  CASE IsNullish(v) -> out
    [] IsScalar(v) -> Append(out, Add(path, v))
    [] IsArr(v) ->
         IF Len(v[2]) = 0 THEN out
         ELSE LET o == IF Len(v[2]) > 1
                         THEN Append(out, <<"+", path, <<"items", Len(v[2])>>>>)
                         ELSE out
                  first == v[2][1]
              IN  IF TypeOf(first) = "object" /\ first[1] # "null"
                    THEN summarizeObject(first, IndexPath(path, 0), o)
                    ELSE Append(o, Add(IndexPath(path, 0), first))
    [] OTHER -> summarizeEntries(v[2], path, out)

\* ------------------------------------------- manifests and the cluster
Namespace == "default"      \* cmd.payload.namespace of every command here

ConfigMap(meta, value) ==
  Map(<< <<"apiVersion", Str("v1")>>, <<"kind", Str("ConfigMap")>> >>
      \o meta \o << <<"data", Map(<< <<"k", Str(value)>> >>)>> >>)
MetaOf(pairs) == << <<"metadata", Map(pairs)>> >>
DocA == ConfigMap(MetaOf(<< <<"name", Str("a")>> >>), "new")
DocB == ConfigMap(MetaOf(<< <<"name", Str("b")>>,
                           <<"namespace", Str("other")>> >>), "new")
DocNoMeta == ConfigMap(<<>>, "new")

\* A manifest text: the text of a document, garbage (no YAML at all), an
\* empty text, or a bare scalar.
TextOf(doc) == <<"yaml", doc>>
Garbage == <<"garbage">>
EmptyText == <<"empty">>
PlainText == <<"plain">>
\* yaml.load(manifestStr): throws on garbage, undefined for an empty text
yaml_load(text) ==
  CASE text[1] = "garbage" -> [threw |-> TRUE, value |-> Undefined]
    [] text[1] = "empty" -> [threw |-> FALSE, value |-> Undefined]
    [] text[1] = "plain" -> [threw |-> FALSE, value |-> Str("plain")]
    [] OTHER -> [threw |-> FALSE, value |-> text[2]]

Documents == {DocA, DocB, DocNoMeta}
ManifestTexts == {Garbage, EmptyText, PlainText} \cup {TextOf(d) : d \in Documents}
Malformed(text) == ~IsMap(yaml_load(text).value)

\* lines 169-174: default metadata and namespace, in place
defaultMetadata(o, name, namespace) ==
  LET o1 == IF ~Truthy(Get(o, "metadata")) \/ TypeOf(Get(o, "metadata")) # "object"
              THEN Put(o, "metadata",
                       Map(<< <<"name", IF Truthy(name) THEN name
                                        ELSE Str("unnamed")>> >>))
              ELSE o
  IN  IF ~Truthy(Get(Get(o1, "metadata"), "namespace"))
        THEN Put(o1, "metadata",
                 Put(Get(o1, "metadata"), "namespace", Str(namespace)))
        ELSE o1

\* `${kind}/${name}`
resourceLabel(o) ==
  <<StrOf(Get(o, "kind")), StrOf(Get(Get(o, "metadata"), "name"))>>
\* what client.read / patch / create address: (kind, namespace, name)
ResourceKey(o) ==
  <<StrOf(Get(o, "kind")), StrOf(Get(Get(o, "metadata"), "namespace")),
    StrOf(Get(Get(o, "metadata"), "name"))>>
ResourceKeys == {ResourceKey(defaultMetadata(d, Get(Get(d, "metadata"), "name"),
                                             Namespace)) : d \in Documents}

\* The API server: what it stores for a created or patched resource (the
\* desired fields plus the fields it manages itself), and an older version.
Stored(o) ==
  Put(o, "metadata",
      Put(Put(Get(o, "metadata"), "uid", Str("uid")), "resourceVersion", Str("7")))
OldVersion(o) == Put(Stored(o), "data", Map(<< <<"k", Str("old")>> >>))
Absent == Undefined
ApiErrors == {"HTTP 422"}
DefaultedDocuments ==
  {defaultMetadata(d, Get(Get(d, "metadata"), "name"), Namespace) : d \in Documents}
\* a cluster holds, under each key, nothing, an older version of the
\* resource or the version of the manifests
InitialClusters ==
  {f \in [ResourceKeys -> {Absent} \cup {OldVersion(d) : d \in DefaultedDocuments}
                                   \cup {Stored(d) : d \in DefaultedDocuments}] :
     \A k \in ResourceKeys : f[k][1] = "map" => ResourceKey(f[k]) = k}

\* ------------------------------------------------------------- commands
True == <<"bool", TRUE>>
False == <<"bool", FALSE>>
Batches(n) == UNION {[1..k -> ManifestTexts] : k \in 0..n}
Payload(namespace, manifests, dryRun) ==
  [namespace |-> namespace, manifests |-> manifests, dryRun |-> dryRun]
ApplyCommand(manifests, dryRun) ==
  [type |-> "apply_manifest",
   payload |-> Payload(Str(Namespace), manifests, dryRun)]
\* every apply_manifest command with at most MaxBatch manifests
ApplyCommands ==
  {ApplyCommand(Arr(m), d) :
     m \in Batches(MaxBatch), d \in {True, False, Undefined}}
\* the commands the control plane hands out in the runs of the whole loop
LoopCommands ==
  { [type |-> "list_namespaces",
     payload |-> Payload(Undefined, Undefined, Undefined)],
    [type |-> "restart_pod",
     payload |-> Payload(Str(Namespace), Undefined, Undefined)],
    ApplyCommand(Arr(<<TextOf(DocA)>>), True),
    ApplyCommand(Arr(<<TextOf(DocA)>>), Undefined),
    ApplyCommand(Arr(<<PlainText, TextOf(DocB)>>), False),
    ApplyCommand(Arr(<<TextOf(DocB), Garbage>>), False),
    ApplyCommand(Undefined, False) }

\* cmd.payload.dryRun === true
dryRunOf(c) == StrictEq(c.payload.dryRun, True)
\* mutant: the dry-run option is not passed on to the client
dryRunParam_Dropped(c) == "undefined"
\* dryRun ? 'All' : undefined
dryRunParam(c) == IF dryRunOf(c) THEN "All" ELSE "undefined"

\* ------------------------------------------------- control-plane requests
RegisterReq == [kind |-> "register"]
PollReq(id) == [kind |-> "poll", agentId |-> id]
ResultReq(id, commandId, status, result, error) ==
  [kind |-> "result", agentId |-> id, commandId |-> commandId,
   status |-> status, result |-> result, error |-> error]

\* ------------------------------------------------------------ main()
\* mutant: the loop condition does not look at the flag
PollLoopTop_IgnoresFlag ==
  /\ pc' = "poll"
  /\ inflight' = {PollReq(agentId')}
  /\ pollBit' = 1 - pollBit

\* line 476, `while (running)`: issue the next poll, or return from main
PollLoopTop ==
  IF running
    THEN /\ pc' = "poll"
         /\ inflight' = {PollReq(agentId')}
         /\ pollBit' = 1 - pollBit
    ELSE /\ pc' = "stopped"
         /\ inflight' = {}
         /\ pollBit' = pollBit

\* mutant: the registration loop is left whether or not an identity is set
RegisterLoopTop_SkipsIdentity == PollLoopTop

\* line 465, `while (running && !agentId)`: start register(), or fall
\* through to the poll loop
RegisterLoopTop ==
  IF running /\ agentId' = NoId
    THEN /\ pc' = "getCode"
         /\ inflight' = {}
         /\ pollBit' = pollBit
    ELSE PollLoopTop

Init ==
  /\ pc = "getCode"
  /\ agentId = NoId
  /\ running = TRUE
  /\ cmd = NoCmd
  /\ inflight = {}
  /\ executing = {}
  /\ timer = NoTimer
  /\ pollBit = 0
  /\ regFails = 0
  /\ pollFails = 0
  /\ delivered = 0
  /\ cpAgent = NoId
  /\ submitted = <<>>
  /\ idx = 0
  /\ obj = Null
  /\ liveObj = Null
  /\ results = <<>>
  /\ logs = <<>>
  /\ cluster \in InitialClusters
  /\ k8sReqs = <<>>
  /\ threw = {}
  /\ writes = {}
  /\ sigAt = "none"
  /\ pending = {}
  /\ resources = <<>>
  /\ docs = <<>>
  /\ fetched = <<>>
  /\ liveArg = Null
  /\ desiredArg = Null
  /\ outArg = <<>>

\* register(), lines 26-33: versionApi.getCode() settles either way, then
\* the register request is sent
GetCodeSettled ==
  /\ pc = "getCode"
  /\ pc' = "register"
  /\ inflight' = {RegisterReq}
  /\ UNCHANGED <<agentId, running, cmd, executing, timer, pollBit, regFails,
                 pollFails, delivered, cpAgent, sigAt, submitted>>
  /\ UNCHANGED <<diffVars, writes, applyVars, queryVars, cluster, k8sReqs, threw>>

\* register() resolves with data.agentId: line 467 stores it, the
\* registration loop ends and the poll loop starts
RegisterResolved(id) ==
  /\ pc = "register"
  /\ agentId' = id
  /\ cpAgent' = id
  /\ regFails' = 0
  /\ RegisterLoopTop
  /\ UNCHANGED <<running, cmd, executing, timer, pollFails, delivered,
                 submitted, sigAt>>
  /\ UNCHANGED <<diffVars, writes, applyVars, queryVars, cluster, k8sReqs, threw>>

\* mutant: a registration failure leaves main (main().catch, line 514)
RegisterThrew_Fatal ==
  /\ pc = "register"
  /\ regFails < MaxRegFails
  /\ regFails' = regFails + 1
  /\ pc' = "fatal"
  /\ inflight' = {}
  /\ UNCHANGED <<agentId, running, cmd, executing, timer, pollBit, pollFails,
                 delivered, cpAgent, sigAt, submitted>>
  /\ UNCHANGED <<diffVars, writes, applyVars, queryVars, cluster, k8sReqs, threw>>

\* register() throws (the fetch rejects, !res.ok, or res.json() rejects):
\* lines 468-470 log it and wait 5 s
RegisterThrew ==
  /\ pc = "register"
  /\ regFails < MaxRegFails
  /\ regFails' = regFails + 1
  /\ pc' = "regDelay"
  /\ timer' = RegRetryDelay
  /\ inflight' = {}
  /\ UNCHANGED <<agentId, running, cmd, executing, pollBit, pollFails,
                 delivered, cpAgent, sigAt, submitted>>
  /\ UNCHANGED <<diffVars, writes, applyVars, queryVars, cluster, k8sReqs, threw>>

\* the 5 s timer fires: back to the top of the registration loop
RegDelayElapsed ==
  /\ pc = "regDelay"
  /\ timer' = NoTimer
  /\ agentId' = agentId
  /\ RegisterLoopTop
  /\ UNCHANGED <<running, cmd, executing, regFails, pollFails, delivered,
                 cpAgent, sigAt, submitted>>
  /\ UNCHANGED <<diffVars, writes, applyVars, queryVars, cluster, k8sReqs, threw>>

\* process.on('SIGTERM' | 'SIGINT'), lines 504-512
Shutdown ==
  /\ pc # "stopped"
  /\ running
  /\ running' = FALSE
  /\ sigAt' = pc
  /\ UNCHANGED <<pc, agentId, cmd, inflight, executing, timer, pollBit,
                 regFails, pollFails, delivered, cpAgent, submitted>>
  /\ UNCHANGED <<diffVars, writes, applyVars, queryVars, cluster, k8sReqs, threw>>

\* mutant: the result request is not awaited, the next poll goes out with it
Returned_NoAwait(result, error) ==
  LET status == IF Truthy(error) THEN "failed" ELSE "completed"
  IN  /\ pc' = "poll"
      /\ inflight' = {ResultReq(agentId, cmd.id, status,
                                IF Truthy(error) THEN Undefined ELSE result,
                                error),
                      PollReq(agentId)}
      /\ executing' = {}
      /\ submitted' = Append(submitted, status)

\* main, lines 482-487: executeCommand resolved with {result, error}; the
\* result request is sent
Returned(result, error) ==
  LET status == IF Truthy(error) THEN "failed" ELSE "completed"
  IN  /\ pc' = "submit"
      /\ inflight' = {ResultReq(agentId, cmd.id, status,
                                IF Truthy(error) THEN Undefined ELSE result,
                                error)}
      /\ executing' = {}
      /\ submitted' = Append(submitted, status)

\* main, lines 489-492: executeCommand or the submitResult of the try block
\* threw; the catch handler sends a 'failed' result request
Caught(msg) ==
  /\ pc' = "submitCatch"
  /\ inflight' = {ResultReq(agentId, cmd.id, "failed", Undefined, Str(msg))}
  /\ executing' = {}
  /\ submitted' = Append(submitted, "failed")

\* poll() resolves with data.command: line 482 calls executeCommand(cmd)
PollCommand(c) ==
  /\ pc = "poll"
  /\ delivered < MaxCmds
  /\ delivered' = delivered + 1
  /\ cmd' = [id |-> delivered + 1, type |-> c.type, payload |-> c.payload]
  /\ pollFails' = 0
  /\ pc' = "dispatch"
  /\ inflight' = {}
  /\ executing' = {delivered + 1}
  /\ submitted' = <<>>
  /\ k8sReqs' = <<>>
  /\ threw' = {}
  /\ fetched' = <<>>
  /\ UNCHANGED <<agentId, running, timer, pollBit, regFails, cpAgent, sigAt>>
  /\ UNCHANGED <<diffVars, writes, applyVars, pending, resources, docs, cluster>>

\* mutant: the loop sleeps after a poll that returned no command
PollNoCommand_Sleeps ==
  /\ pc = "poll"
  /\ pollFails' = 0
  /\ pc' = "backoff"
  /\ timer' = PollBackoff
  /\ inflight' = {}
  /\ UNCHANGED <<agentId, running, cmd, executing, pollBit, regFails,
                 delivered, cpAgent, sigAt, submitted>>
  /\ UNCHANGED <<diffVars, writes, applyVars, queryVars, cluster, k8sReqs, threw>>

\* poll() resolves with null because the response carries no command
PollNoCommand ==
  /\ pc = "poll"
  /\ pollFails' = 0
  /\ agentId' = agentId
  /\ PollLoopTop
  /\ UNCHANGED <<running, cmd, executing, timer, regFails, delivered,
                 cpAgent, sigAt, submitted>>
  /\ UNCHANGED <<diffVars, writes, applyVars, queryVars, cluster, k8sReqs, threw>>

\* poll(), lines 62-65: !res.ok is logged and null is returned
PollNotOk ==
  /\ pc = "poll"
  /\ pollFails < MaxPollFails
  /\ pollFails' = pollFails + 1
  /\ agentId' = agentId
  /\ PollLoopTop
  /\ UNCHANGED <<running, cmd, executing, timer, regFails, delivered,
                 cpAgent, sigAt, submitted>>
  /\ UNCHANGED <<diffVars, writes, applyVars, queryVars, cluster, k8sReqs, threw>>

\* mutant: a poll error drops the identity and registers again
PollThrew_Reregister ==
  /\ pc = "poll"
  /\ pollFails < MaxPollFails
  /\ pollFails' = pollFails + 1
  /\ agentId' = NoId
  /\ pc' = "getCode"
  /\ inflight' = {}
  /\ UNCHANGED <<running, cmd, executing, timer, pollBit, regFails,
                 delivered, cpAgent, sigAt, submitted>>
  /\ UNCHANGED <<diffVars, writes, applyVars, queryVars, cluster, k8sReqs, threw>>

\* poll() throws (the fetch rejects, or res.json() rejects): lines 496-499
PollThrew ==
  /\ pc = "poll"
  /\ pollFails < MaxPollFails
  /\ pollFails' = pollFails + 1
  /\ pc' = "backoff"
  /\ timer' = PollBackoff
  /\ inflight' = {}
  /\ UNCHANGED <<agentId, running, cmd, executing, pollBit, regFails,
                 delivered, cpAgent, sigAt, submitted>>
  /\ UNCHANGED <<diffVars, writes, applyVars, queryVars, cluster, k8sReqs, threw>>

\* the 3 s timer fires: back to the top of the poll loop
BackoffElapsed ==
  /\ pc = "backoff"
  /\ timer' = NoTimer
  /\ agentId' = agentId
  /\ PollLoopTop
  /\ UNCHANGED <<running, cmd, executing, regFails, pollFails, delivered,
                 cpAgent, sigAt, submitted>>
  /\ UNCHANGED <<diffVars, writes, applyVars, queryVars, cluster, k8sReqs, threw>>

\* the submitResult of the try block resolves (fetch resolves for every
\* HTTP status): line 488, then the top of the loop
SubmitResolved ==
  /\ pc = "submit"
  /\ cmd' = NoCmd
  /\ agentId' = agentId
  /\ PollLoopTop
  /\ UNCHANGED <<running, executing, timer, regFails, pollFails, delivered,
                 cpAgent, sigAt, submitted>>
  /\ UNCHANGED <<diffVars, writes, applyVars, queryVars, cluster, k8sReqs, threw>>

\* the submitResult of the try block rejects: the catch of line 489 runs
SubmitRejected ==
  /\ pc = "submit"
  /\ Caught("fetch failed")
  /\ UNCHANGED <<agentId, running, cmd, timer, pollBit, regFails, pollFails,
                 delivered, cpAgent, sigAt>>
  /\ UNCHANGED <<diffVars, writes, applyVars, queryVars, cluster, k8sReqs, threw>>

\* the submitResult of the catch handler resolves: the top of the loop
SubmitCatchResolved ==
  /\ pc = "submitCatch"
  /\ cmd' = NoCmd
  /\ agentId' = agentId
  /\ PollLoopTop
  /\ UNCHANGED <<running, executing, timer, regFails, pollFails, delivered,
                 cpAgent, sigAt, submitted>>
  /\ UNCHANGED <<diffVars, writes, applyVars, queryVars, cluster, k8sReqs, threw>>

\* mutant: the rejection of the handler's submitResult leaves main
SubmitCatchRejected_Fatal ==
  /\ pc = "submitCatch"
  /\ cmd' = NoCmd
  /\ pc' = "fatal"
  /\ inflight' = {}
  /\ UNCHANGED <<agentId, running, executing, timer, pollBit, regFails,
                 pollFails, delivered, cpAgent, sigAt, submitted>>
  /\ UNCHANGED <<diffVars, writes, applyVars, queryVars, cluster, k8sReqs, threw>>

\* the submitResult of the catch handler rejects: the outer catch, line 496
SubmitCatchRejected ==
  /\ pc = "submitCatch"
  /\ cmd' = NoCmd
  /\ pc' = "backoff"
  /\ timer' = PollBackoff
  /\ inflight' = {}
  /\ UNCHANGED <<agentId, running, executing, pollBit, regFails, pollFails,
                 delivered, cpAgent, sigAt, submitted>>
  /\ UNCHANGED <<diffVars, writes, applyVars, queryVars, cluster, k8sReqs, threw>>

\* -------------------------------------------------------- executeCommand
NoLocals ==
  /\ idx' = 0
  /\ obj' = Null
  /\ liveObj' = Null
  /\ results' = <<>>
  /\ logs' = <<>>

K8sReq(op, key, dryRun) == [op |-> op, key |-> key, dryRun |-> dryRun]

\* case 'list_namespaces', line 91: coreApi.listNamespace() is awaited
ExecListNamespaces ==
  /\ pc = "dispatch"
  /\ cmd.type = "list_namespaces"
  /\ pc' = "listNamespace"
  /\ k8sReqs' = Append(k8sReqs, K8sReq("listNamespace", <<>>, "undefined"))
  /\ UNCHANGED threw
  /\ UNCHANGED <<agentId, running, cmd, inflight, executing, timer, pollBit,
                 regFails, pollFails, delivered, cpAgent, sigAt, submitted>>
  /\ UNCHANGED <<diffVars, writes, applyVars, queryVars, cluster>>

\* line 92: the names of the namespaces are the result
ListNamespaceResolved ==
  /\ pc = "listNamespace"
  /\ Returned(Arr(<<Str("default"), Str("other")>>), Undefined)
  /\ UNCHANGED <<agentId, running, cmd, timer, pollBit, regFails, pollFails,
                 delivered, cpAgent, sigAt>>
  /\ UNCHANGED <<diffVars, writes, applyVars, queryVars, cluster, k8sReqs, threw>>

\* coreApi.listNamespace() throws: executeCommand rejects
ListNamespaceThrew ==
  /\ pc = "listNamespace"
  /\ \E msg \in ApiErrors : Caught(msg)
  /\ UNCHANGED <<agentId, running, cmd, timer, pollBit, regFails, pollFails,
                 delivered, cpAgent, sigAt>>
  /\ UNCHANGED <<diffVars, writes, applyVars, queryVars, cluster, k8sReqs, threw>>

KnownTypes == {"list_namespaces", "list_resources", "get_manifests",
               "apply_manifest", "get_logs"}

\* default, lines 288-289
ExecUnknown ==
  /\ pc = "dispatch"
  /\ cmd.type \notin KnownTypes
  /\ Returned(Undefined, Str("Unknown command type: " \o cmd.type))
  /\ UNCHANGED <<agentId, running, cmd, timer, pollBit, regFails, pollFails,
                 delivered, cpAgent, sigAt>>
  /\ UNCHANGED <<diffVars, writes, applyVars, queryVars, cluster, k8sReqs, threw>>

\* one entry of results: line 208/224 (success) and line 231 (failure)
Success(label, action, diff) ==
  [resource |-> label, success |-> TRUE, error |-> "", log |-> action,
   diff |-> diff]
Failure(label, msg) ==
  [resource |-> label, success |-> FALSE, error |-> msg,
   log |-> <<label, "failed", msg>>, diff |-> <<>>]
\* lines 229-230
FailLines(label, msg) == << <<"  x", label, "failed", msg>>, <<"">> >>
Count(res, ok) == Len(SelectSeq(res, LAMBDA r : r.success = ok))
\* line 237
DoneLine(res) == <<"Done", Count(res, TRUE), "passed", Count(res, FALSE), "failed">>

\* The for-loop of lines 161-233 from manifest i up to its next await
\* (client.read), to its end (the return of line 239) or to an exception
\* that leaves executeCommand.
RECURSIVE RunFrom(_, _, _, _)
RunFrom(c, i, res, lg) ==
  LET manifests == c.payload.manifests[2]
      Throw(msg) == [at |-> "throw", idx |-> i, obj |-> Null, results |-> res,
                     logs |-> lg, msg |-> msg]
  IN  IF i > Len(manifests)
        THEN [at |-> "return", idx |-> 0, obj |-> Null, results |-> res,
              logs |-> Append(lg, DoneLine(res)), msg |-> ""]
      ELSE
        LET parsed == yaml_load(manifests[i])
            o == parsed.value
            kind == Get(o, "kind")
            metadata == Get(o, "metadata")
            name == Get(metadata, "name")
            label == <<StrOf(kind), StrOf(name)>>
        IN  IF parsed.threw THEN Throw("YAMLException")      \* line 162
            ELSE IF IsNullish(o) THEN Throw("TypeError")     \* line 163
            ELSE IF ~IsMap(o)
              \* line 170 assigns a property of a primitive: a TypeError
              \* inside the try, caught at line 227
              THEN RunFrom(c, i + 1, Append(res, Failure(label, "TypeError")),
                           lg \o FailLines(label, "TypeError"))
            ELSE [at |-> "read", idx |-> i,
                  obj |-> defaultMetadata(o, name, c.payload.namespace[2]),
                  results |-> res, logs |-> lg, msg |-> ""]

\* executeCommand goes on from where RunFrom stopped
Continue(r) ==
  CASE r.at = "read" ->
         /\ pc' = "read"
         /\ idx' = r.idx
         /\ obj' = r.obj
         /\ liveObj' = Null
         /\ results' = r.results
         /\ logs' = r.logs
         /\ k8sReqs' = Append(k8sReqs, K8sReq("read", ResourceKey(r.obj), "undefined"))
         /\ UNCHANGED <<inflight, executing, submitted>>
    [] r.at = "return" ->
         /\ Returned([results |-> r.results, log |-> r.logs,
                      dryRun |-> dryRunOf(cmd)], Undefined)
         /\ NoLocals
         /\ UNCHANGED k8sReqs
    [] OTHER ->
         /\ Caught(r.msg)
         /\ NoLocals
         /\ UNCHANGED k8sReqs

\* case 'apply_manifest', lines 151-159, then the loop
ExecApplyManifest ==
  /\ pc = "dispatch"
  /\ cmd.type = "apply_manifest"
  /\ IF ~IsArr(cmd.payload.manifests)
       \* line 158, manifests.length of undefined
       THEN Caught("TypeError") /\ NoLocals /\ UNCHANGED k8sReqs
       ELSE Continue(RunFrom(cmd, 1, <<>>,
              << <<IF dryRunOf(cmd) THEN "Dry run" ELSE "Deploying",
                   Len(cmd.payload.manifests[2]), cmd.payload.namespace[2]>>,
                 <<"">> >>))
  /\ UNCHANGED <<agentId, running, cmd, timer, pollBit, regFails, pollFails,
                 delivered, cpAgent, sigAt, cluster, threw, queryVars,
                 diffVars, writes>>

Key == ResourceKey(obj)
loopFrame == <<agentId, running, cmd, timer, pollBit, regFails, pollFails,
               delivered, cpAgent, sigAt, queryVars, diffVars, writes>>

\* lines 181-183 and 188-189: client.read returns the live object, and the
\* patch request is sent
ReadFound ==
  /\ pc = "read"
  /\ IsMap(cluster[Key])
  /\ liveObj' = cluster[Key]
  /\ pc' = "patch"
  /\ k8sReqs' = Append(k8sReqs, K8sReq("patch", Key, dryRunParam(cmd)))
  /\ UNCHANGED <<loopFrame, inflight, executing, submitted, threw>>
  /\ UNCHANGED <<idx, obj, results, logs, cluster>>

\* mutant: a read that throws is the manifest's failure, and no create is
\* sent
ReadThrew_Reported ==
  /\ pc = "read"
  /\ threw' = threw \cup {<<idx, "read", "not found">>}
  /\ LET label == resourceLabel(yaml_load(cmd.payload.manifests[2][idx]).value)
     IN  Continue(RunFrom(cmd, idx + 1,
                          Append(results, Failure(label, "not found")),
                          logs \o FailLines(label, "not found")))
  /\ UNCHANGED <<loopFrame, cluster>>

\* lines 184-186 and 209-210: client.read throws (not found, or any other
\* error), liveObj stays null, and the create request is sent
ReadThrew ==
  /\ pc = "read"
  /\ liveObj' = Null
  /\ threw' = threw \cup {<<idx, "read", "not found">>}
  /\ pc' = "create"
  /\ k8sReqs' = Append(k8sReqs, K8sReq("create", Key, dryRunParam(cmd)))
  /\ UNCHANGED <<loopFrame, inflight, executing, submitted>>
  /\ UNCHANGED <<idx, obj, results, logs, cluster>>

\* the API server carries out a patch or create, unless it is a dry run
ServerStore(dryRun) ==
  cluster' = IF dryRun = "All" THEN cluster
             ELSE [cluster EXCEPT ![Key] = Stored(obj)]

\* `${resourceLabel} ...` of lines 190 and 211
actionOf(verb) == <<resourceLabel(yaml_load(cmd.payload.manifests[2][idx]).value), verb>>
currentLabel == resourceLabel(yaml_load(cmd.payload.manifests[2][idx]).value)
DiffLogLines(diffLines) == [i \in 1..Len(diffLines) |-> <<"      ", diffLines[i]>>]

\* lines 189-208 and 226: client.patch resolves
PatchResolved ==
  /\ pc = "patch"
  /\ IsMap(cluster[Key])
  /\ ServerStore(dryRunParam(cmd))
  /\ LET action == actionOf(IF dryRunOf(cmd) THEN "validated (would update)"
                            ELSE "configured")
         diffLines == IF dryRunOf(cmd)
                        THEN deepDiff(cleanForDiff(liveObj), cleanForDiff(obj),
                                      <<>>, <<>>)
                        ELSE <<>>
         diffLog == IF ~dryRunOf(cmd) THEN <<>>
                    ELSE IF Len(diffLines) = 0 THEN << <<"      (no changes)">> >>
                    ELSE DiffLogLines(diffLines)
     IN  Continue(RunFrom(cmd, idx + 1,
                          Append(results, Success(currentLabel, action, diffLines)),
                          logs \o << <<"  ok", action>> >> \o diffLog \o << <<"">> >>))
  /\ UNCHANGED <<loopFrame, threw>>

\* lines 210-226: client.create resolves
CreateResolved ==
  /\ pc = "create"
  /\ ~IsMap(cluster[Key])
  /\ ServerStore(dryRunParam(cmd))
  /\ LET action == actionOf(IF dryRunOf(cmd) THEN "validated (would create)"
                            ELSE "created")
         diffLines == IF dryRunOf(cmd)
                        THEN summarizeObject(cleanForDiff(obj), <<>>, <<>>)
                        ELSE <<>>
     IN  Continue(RunFrom(cmd, idx + 1,
                          Append(results, Success(currentLabel, action, diffLines)),
                          logs \o << <<"  ok", action>> >>
                            \o DiffLogLines(diffLines) \o << <<"">> >>))
  /\ UNCHANGED <<loopFrame, threw>>

\* mutant: the exception of the mutation leaves the loop and executeCommand
MutationThrew_Aborts ==
  /\ pc \in {"patch", "create"}
  /\ \E msg \in ApiErrors :
       /\ threw' = threw \cup {<<idx, pc, msg>>}
       /\ Caught(msg)
       /\ NoLocals
       /\ UNCHANGED k8sReqs
  /\ UNCHANGED <<loopFrame, cluster>>

\* mutant: after an error of the patch or create the manifest is read again
MutationThrew_Rereads ==
  /\ pc \in {"patch", "create"}
  /\ \A e \in threw : e[1] # idx \/ e[2] = "read"
  /\ \E msg \in ApiErrors : threw' = threw \cup {<<idx, pc, msg>>}
  /\ pc' = "read"
  /\ k8sReqs' = Append(k8sReqs, K8sReq("read", Key, "undefined"))
  /\ UNCHANGED <<loopFrame, cluster, inflight, executing, submitted, applyVars>>

\* client.patch or client.create throws: the catch of lines 227-231
MutationThrew ==
  /\ pc \in {"patch", "create"}
  /\ \E msg \in ApiErrors :
       /\ threw' = threw \cup {<<idx, pc, msg>>}
       /\ Continue(RunFrom(cmd, idx + 1,
                           Append(results, Failure(currentLabel, msg)),
                           logs \o FailLines(currentLabel, msg)))
  /\ UNCHANGED <<loopFrame, cluster>>

\* the dry-run patch or create resolved and line 191/212 logged it, then the
\* diff or the summary throws (a RangeError on a document nested too deep
\* for the recursion): the catch of lines 227-231
DiffThrew ==
  /\ pc \in {"patch", "create"}
  /\ dryRunOf(cmd)
  /\ IsMap(cluster[Key]) <=> pc = "patch"
  /\ threw' = threw \cup {<<idx, "diff", "RangeError">>}
  /\ LET action == actionOf(IF pc = "patch" THEN "validated (would update)"
                            ELSE "validated (would create)")
     IN  Continue(RunFrom(cmd, idx + 1,
                          Append(results, Failure(currentLabel, "RangeError")),
                          logs \o << <<"  ok", action>> >>
                            \o FailLines(currentLabel, "RangeError")))
  /\ UNCHANGED <<loopFrame, cluster>>

\* Another client of the API server writes the resource of manifest idx
\* while the patch or create that follows the read of lines 181-186 is on
\* its way: it deletes the resource, creates it, or changes it.  At most
\* one such write per manifest.
WriteKinds == {"delete", "create", "change"}
ExternalWrite(what) ==
  /\ pc \in {"patch", "create"}
  /\ \A w \in writes : w[1] # idx
  /\ CASE what = "delete" ->
            /\ IsMap(cluster[Key])
            /\ cluster' = [cluster EXCEPT ![Key] = Absent]
       [] what = "create" ->
            /\ ~IsMap(cluster[Key])
            /\ cluster' = [cluster EXCEPT ![Key] = OldVersion(obj)]
       [] OTHER ->
            /\ IsMap(cluster[Key])
            /\ cluster' = [cluster EXCEPT ![Key] =
                             IF cluster[Key] = OldVersion(obj)
                               THEN Stored(obj) ELSE OldVersion(obj)]
  /\ writes' = writes \cup {<<idx, what>>}
  /\ UNCHANGED <<loopVars, applyVars, queryVars, diffVars, k8sReqs, threw>>

\* ---------------------------------------------- executeCommand, queries
\* the kinds of lines 100-110, in the order of the fetchers array
Catalog ==
  << [kind |-> "Deployment", apiVersion |-> "apps/v1"],
     [kind |-> "Service", apiVersion |-> "v1"],
     [kind |-> "ConfigMap", apiVersion |-> "v1"],
     [kind |-> "Secret", apiVersion |-> "v1"],
     [kind |-> "Ingress", apiVersion |-> "networking.k8s.io/v1"],
     [kind |-> "StatefulSet", apiVersion |-> "apps/v1"],
     [kind |-> "DaemonSet", apiVersion |-> "apps/v1"],
     [kind |-> "CronJob", apiVersion |-> "batch/v1"],
     [kind |-> "Job", apiVersion |-> "batch/v1"],
     [kind |-> "HorizontalPodAutoscaler", apiVersion |-> "autoscaling/v1"],
     [kind |-> "PersistentVolumeClaim", apiVersion |-> "v1"] >>
\* the fetchers of the model: the first MaxKinds of the array
Fetchers == 1..(IF MaxKinds < Len(Catalog) THEN MaxKinds ELSE Len(Catalog))
Pending == <<"pending">>
Failed == <<"failed">>
\* r.items of a list response, each item given by its metadata?.name
ListResponses ==
  {Undefined, Arr(<<Str("web")>>), Arr(<<Str("db"), Undefined>>)}
\* r.items || []
itemsOf(r) == IF Truthy(r) THEN r[2] ELSE <<>>
\* i.metadata?.name || ''
nameOf(i) == IF Truthy(i) THEN i[2] ELSE ""
\* the references one fetcher pushes, in the order of r.items
Refs(k, r, namespace) ==
  [j \in 1..Len(itemsOf(r)) |->
     [kind |-> Catalog[k].kind, apiVersion |-> Catalog[k].apiVersion,
      name |-> nameOf(itemsOf(r)[j]), namespace |-> namespace]]
ListCommand ==
  [type |-> "list_resources",
   payload |-> Payload(Str(Namespace), Undefined, Undefined)]

\* case 'list_resources', lines 96-112: fetchers.map((f) => f()) calls every
\* fetcher, each of which issues its list request before it first awaits
ExecListResources ==
  /\ pc = "dispatch"
  /\ cmd.type = "list_resources"
  /\ pc' = "listResources"
  /\ pending' = Fetchers
  /\ resources' = <<>>
  /\ fetched' = [k \in Fetchers |-> Pending]
  /\ k8sReqs' = k8sReqs \o
       [k \in Fetchers |->
          K8sReq("list", <<Catalog[k].kind, cmd.payload.namespace>>, "undefined")]
  /\ UNCHANGED <<agentId, running, cmd, inflight, executing, timer, pollBit,
                 regFails, pollFails, delivered, cpAgent, sigAt, submitted>>
  /\ UNCHANGED <<diffVars, writes, applyVars, docs, cluster, threw>>

\* lines 112-113: Promise.allSettled resolves when no fetcher is pending,
\* and resources is the result
AllSettled(left, res) ==
  IF left = {}
    THEN /\ Returned(Arr(res), Undefined)
         /\ pending' = {}
         /\ resources' = <<>>
    ELSE /\ pending' = left
         /\ resources' = res
         /\ UNCHANGED <<pc, inflight, executing, submitted>>

\* the list call of fetcher k resolves: it pushes one reference per item
FetcherResolved(k, r) ==
  /\ pc = "listResources"
  /\ k \in pending
  /\ fetched' = [fetched EXCEPT ![k] = r]
  /\ AllSettled(pending \ {k}, resources \o Refs(k, r, cmd.payload.namespace))
  /\ UNCHANGED <<agentId, running, cmd, timer, pollBit, regFails, pollFails,
                 delivered, cpAgent, sigAt>>
  /\ UNCHANGED <<diffVars, writes, applyVars, docs, cluster, k8sReqs, threw>>

\* mutant: the fetchers are joined with Promise.all, which rejects with the
\* first failure
FetcherThrew_Rejects(k) ==
  /\ pc = "listResources"
  /\ k \in pending
  /\ fetched' = [fetched EXCEPT ![k] = Failed]
  /\ \E msg \in ApiErrors : Caught(msg)
  /\ pending' = {}
  /\ resources' = <<>>
  /\ UNCHANGED <<agentId, running, cmd, timer, pollBit, regFails, pollFails,
                 delivered, cpAgent, sigAt>>
  /\ UNCHANGED <<diffVars, writes, applyVars, docs, cluster, k8sReqs, threw>>

\* the list call of fetcher k throws: its promise rejects, nothing is pushed
FetcherThrew(k) ==
  /\ pc = "listResources"
  /\ k \in pending
  /\ fetched' = [fetched EXCEPT ![k] = Failed]
  /\ AllSettled(pending \ {k}, resources)
  /\ UNCHANGED <<agentId, running, cmd, timer, pollBit, regFails, pollFails,
                 delivered, cpAgent, sigAt>>
  /\ UNCHANGED <<diffVars, writes, applyVars, docs, cluster, k8sReqs, threw>>


\* a live object as the API server returns it
LiveObject(kind, name, annotations) ==
  Map(<< <<"apiVersion", Str("v1")>>,
         <<"kind", Str(kind)>>,
         <<"metadata", Map(<< <<"name", Str(name)>>,
                              <<"namespace", Str(Namespace)>>,
                              <<"uid", Str("uid")>>,
                              <<"resourceVersion", Str("7")>>,
                              <<"annotations", Map(annotations)>>,
                              <<"labels", Map(<< <<"app", Str(name)>> >>)>> >>)>>,
         <<"spec", Map(<< <<"replicas", <<"num", 1>> >> >>)>>,
         <<"status", Map(<< <<"phase", Str("Active")>> >>)>> >>)
\* what a readNamespaced<Kind> call may resolve with
RawObjects(item) ==
  {LiveObject(item.kind, item.name, <<>>),
   LiveObject(item.kind, item.name, << <<"note", Str("x")>> >>)}
CatalogKinds == {Catalog[k].kind : k \in 1..Len(Catalog)}
\* the { kind, name } items a request is made of: two kinds of the switch
\* and one kind that is no case of it
RequestItems ==
  {[kind |-> "ConfigMap", name |-> "a"],
   [kind |-> "Deployment", name |-> "web"],
   [kind |-> "Pod", name |-> "p"]}
Requests == UNION {[1..n -> RequestItems] : n \in 0..MaxRequested}
GetCommand(req) ==
  [type |-> "get_manifests",
   payload |-> [namespace |-> Str(Namespace), resources |-> Arr(req)]]
GetCommands == {GetCommand(req) : req \in Requests}
Skipped == <<"skipped">>
\* yaml.dump(cleaned, { lineWidth: -1 }): the text of the document
yaml_dump(doc) == TextOf(doc)
Separator == <<"---">>
\* docs.join('---\n')
Join(ds) ==
  [j \in 1..(IF Len(ds) = 0 THEN 0 ELSE 2 * Len(ds) - 1) |->
     IF j % 2 = 1 THEN ds[(j + 1) \div 2] ELSE Separator]

\* The for-loop of lines 122-145 from item i up to its next await (a
\* readNamespaced<Kind> call) or to its end: an item whose kind is no case
\* of the switch leaves raw null and adds nothing.
RECURSIVE GetFrom(_, _, _, _)
GetFrom(c, i, ds, f) ==
  LET requested == c.payload.resources[2]
  IN  IF i > Len(requested)
        THEN [at |-> "return", idx |-> 0, docs |-> ds, fetched |-> f]
      ELSE IF requested[i].kind \notin CatalogKinds
        THEN GetFrom(c, i + 1, ds, Append(f, Skipped))
      ELSE [at |-> "read", idx |-> i, docs |-> ds, fetched |-> f]

\* executeCommand goes on from where GetFrom stopped
ContinueGet(r) ==
  IF r.at = "read"
    THEN /\ pc' = "readManifest"
         /\ idx' = r.idx
         /\ docs' = r.docs
         /\ fetched' = r.fetched
         /\ k8sReqs' = Append(k8sReqs,
              K8sReq("readNamespaced",
                     <<cmd.payload.resources[2][r.idx].kind, cmd.payload.namespace,
                       cmd.payload.resources[2][r.idx].name>>, "undefined"))
         /\ UNCHANGED <<inflight, executing, submitted>>
    ELSE /\ Returned(<<"text", Join(r.docs)>>, Undefined)      \* line 147
         /\ idx' = 0
         /\ docs' = <<>>
         /\ fetched' = r.fetched
         /\ UNCHANGED k8sReqs

\* case 'get_manifests', lines 118-122
ExecGetManifests ==
  /\ pc = "dispatch"
  /\ cmd.type = "get_manifests"
  /\ ContinueGet(GetFrom(cmd, 1, <<>>, <<>>))
  /\ UNCHANGED <<agentId, running, cmd, timer, pollBit, regFails, pollFails,
                 delivered, cpAgent, sigAt>>
  /\ UNCHANGED <<diffVars, writes, obj, liveObj, results, logs, pending, resources, cluster, threw>>

\* lines 124-141: the read resolves, the object is cleaned, dumped and pushed
ManifestFetched(raw) ==
  /\ pc = "readManifest"
  /\ raw \in RawObjects(cmd.payload.resources[2][idx])
  /\ ContinueGet(GetFrom(cmd, idx + 1,
                         Append(docs, yaml_dump(cleanManifest(raw))),
                         Append(fetched, raw)))
  /\ UNCHANGED <<agentId, running, cmd, timer, pollBit, regFails, pollFails,
                 delivered, cpAgent, sigAt>>
  /\ UNCHANGED <<diffVars, writes, obj, liveObj, results, logs, pending, resources, cluster, threw>>

\* mutant: the exception of a read is not caught and leaves executeCommand
ManifestFetchThrew_Fails ==
  /\ pc = "readManifest"
  /\ \E msg \in ApiErrors : Caught(msg)
  /\ idx' = 0
  /\ docs' = <<>>
  /\ fetched' = Append(fetched, Failed)
  /\ UNCHANGED <<agentId, running, cmd, timer, pollBit, regFails, pollFails,
                 delivered, cpAgent, sigAt>>
  /\ UNCHANGED <<diffVars, writes, obj, liveObj, results, logs, pending, resources, cluster,
                 k8sReqs, threw>>

\* lines 142-144: the read throws, the item is logged and skipped
ManifestFetchThrew ==
  /\ pc = "readManifest"
  /\ ContinueGet(GetFrom(cmd, idx + 1, docs, Append(fetched, Failed)))
  /\ UNCHANGED <<agentId, running, cmd, timer, pollBit, regFails, pollFails,
                 delivered, cpAgent, sigAt>>
  /\ UNCHANGED <<diffVars, writes, obj, liveObj, results, logs, pending, resources, cluster, threw>>

\* ------------------------------------------- executeCommand, get_logs
PodSlice == 50
\* A pod log is the sequence of its lines; the empty text has none.  What
\* readNamespacedPodLog resolves with: a text, or something that is no string.
LogTexts == {<<>>, <<" ">>, <<"ok">>, <<"err x">>, <<"ok", "ERR y">>}
LogResponses == {<<"text", t>> : t \in LogTexts} \cup {Undefined}
\* l.toLowerCase().includes(search.toLowerCase())
Includes(line, search) ==
  \/ search = ""
  \/ search \in {"err", "ERR"} /\ line \in {"err x", "ERR y"}
\* lines 255-258 and 274-277
LogLines(log, search) ==
  LET lines == IF log[1] = "text" THEN log[2] ELSE <<>>
  IN  IF Truthy(search)
        THEN SelectSeq(lines, LAMBDA l : Includes(l, search[2]))
        ELSE lines
\* lines.trim() is not empty
NotBlank(lines) == \E j \in 1..Len(lines) : lines[j] # " "
LogsCommand(podName, search) ==
  [type |-> "get_logs",
   payload |-> [namespace |-> Str(Namespace), podName |-> podName,
                search |-> search]]
LogsCommands ==
  {LogsCommand(p, q) : p \in {Undefined, Str(""), Str("web")},
                       q \in {Undefined, Str("ERR")}}
\* what listNamespacedPod resolves with: podList.items, each pod given by
\* its metadata?.name
PodLists ==
  {Undefined, Arr(<<Undefined>>), Arr(<<Str("web"), Undefined, Str("db")>>)}
\* (podList.items || []).slice(0, 50)
Sliced(r) ==
  SubSeq(itemsOf(r), 1,
         IF Len(itemsOf(r)) < PodSlice THEN Len(itemsOf(r)) ELSE PodSlice)

\* The for-loop of lines 265-284 from pod i up to its next await (the
\* readNamespacedPodLog of line 269) or to its end: a pod without a name is
\* passed over.
RECURSIVE LogsFrom(_, _, _, _)
LogsFrom(items, i, pods, f) ==
  IF i > Len(items)
    THEN [at |-> "return", idx |-> 0, pods |-> pods, fetched |-> f]
  ELSE IF nameOf(items[i]) = ""
    THEN LogsFrom(items, i + 1, pods, Append(f, Skipped))
  ELSE [at |-> "read", idx |-> i, pods |-> pods, fetched |-> f]
\* executeCommand goes on from where LogsFrom stopped
ContinueLogs(items, r) ==
  IF r.at = "read"
    THEN /\ pc' = "eachLog"
         /\ idx' = r.idx
         /\ docs' = r.pods
         /\ fetched' = r.fetched
         /\ resources' = items
         /\ k8sReqs' = Append(k8sReqs,
              K8sReq("readNamespacedPodLog",
                     <<cmd.payload.namespace, nameOf(items[r.idx])>>, "undefined"))
         /\ UNCHANGED <<inflight, executing, submitted>>
    ELSE /\ Returned([pods |-> r.pods], Undefined)             \* line 285
         /\ idx' = 0
         /\ docs' = <<>>
         /\ fetched' = r.fetched
         /\ resources' = <<>>
         /\ UNCHANGED k8sReqs
logsFrame == <<agentId, running, cmd, timer, pollBit, regFails, pollFails,
               delivered, cpAgent, sigAt, diffVars, writes, obj, liveObj, results,
               logs, pending, cluster, threw>>

\* case 'get_logs', lines 243-250 and 263: the log of the named pod is
\* requested, or the pods of the namespace are listed
ExecGetLogs ==
  /\ pc = "dispatch"
  /\ cmd.type = "get_logs"
  /\ IF Truthy(cmd.payload.podName)
       THEN /\ pc' = "podLog"
            /\ k8sReqs' = Append(k8sReqs,
                 K8sReq("readNamespacedPodLog",
                        <<cmd.payload.namespace, cmd.payload.podName[2]>>,
                        "undefined"))
       ELSE /\ pc' = "listPods"
            /\ k8sReqs' = Append(k8sReqs,
                 K8sReq("listNamespacedPod", <<cmd.payload.namespace>>, "undefined"))
  /\ UNCHANGED <<inflight, executing, submitted, idx, resources, docs, fetched>>
  /\ UNCHANGED logsFrame

\* lines 250-259: the log of the named pod arrives
PodLogResolved(log) ==
  /\ pc = "podLog"
  /\ Returned([pods |-> << [name |-> cmd.payload.podName[2],
                            logs |-> LogLines(log, cmd.payload.search)] >>],
              Undefined)
  /\ UNCHANGED <<idx, resources, docs, fetched, k8sReqs>>
  /\ UNCHANGED logsFrame

\* line 250 or line 263 throws: neither call is inside a try
LogsCallThrew ==
  /\ pc \in {"podLog", "listPods"}
  /\ \E msg \in ApiErrors : Caught(msg)
  /\ UNCHANGED <<idx, resources, docs, fetched, k8sReqs>>
  /\ UNCHANGED logsFrame

\* lines 263-265: the pod list arrives and the loop starts
PodListResolved(r) ==
  /\ pc = "listPods"
  /\ ContinueLogs(Sliced(r), LogsFrom(Sliced(r), 1, <<>>, <<>>))
  /\ UNCHANGED logsFrame

\* lines 269-280: the log of pod idx arrives and is kept unless it is blank
EachLogResolved(log) ==
  /\ pc = "eachLog"
  /\ LET lines == LogLines(log, cmd.payload.search)
         pods == IF NotBlank(lines)
                   THEN Append(docs, [name |-> nameOf(resources[idx]),
                                      logs |-> lines])
                   ELSE docs
     IN  ContinueLogs(resources,
                      LogsFrom(resources, idx + 1, pods, Append(fetched, log)))
  /\ UNCHANGED logsFrame

\* mutant: the exception of the read of one pod's log leaves executeCommand
EachLogThrew_Fails ==
  /\ pc = "eachLog"
  /\ \E msg \in ApiErrors : Caught(msg)
  /\ idx' = 0
  /\ docs' = <<>>
  /\ resources' = <<>>
  /\ fetched' = Append(fetched, Failed)
  /\ UNCHANGED k8sReqs
  /\ UNCHANGED logsFrame

\* lines 281-283: the read of the log of pod idx throws, the pod is passed
\* over
EachLogThrew ==
  /\ pc = "eachLog"
  /\ ContinueLogs(resources,
                  LogsFrom(resources, idx + 1, docs, Append(fetched, Failed)))
  /\ UNCHANGED logsFrame

\* ------------------------------------------------------- specifications
Next ==
  \/ GetCodeSettled
  \/ \E id \in ReturnedIds : RegisterResolved(id)
  \/ RegisterThrew
  \/ RegDelayElapsed
  \/ Shutdown
  \/ \E c \in LoopCommands : PollCommand(c)
  \/ PollNoCommand
  \/ PollNotOk
  \/ PollThrew
  \/ BackoffElapsed
  \/ ExecListNamespaces
  \/ ListNamespaceResolved
  \/ ListNamespaceThrew
  \/ ExecUnknown
  \/ ExecApplyManifest
  \/ ReadFound
  \/ ReadThrew
  \/ PatchResolved
  \/ CreateResolved
  \/ MutationThrew
  \/ DiffThrew
  \/ SubmitResolved
  \/ SubmitRejected
  \/ SubmitCatchResolved
  \/ SubmitCatchRejected

Spec == Init /\ [][Next]_vars

\* One apply_manifest command, any batch of at most MaxBatch manifests: the
\* agent is registered, its poll is in flight, and the control plane hands
\* out its last command.
InitApply ==
  /\ pc = "poll"
  /\ agentId = "agent-1"
  /\ cpAgent = agentId
  /\ running = TRUE
  /\ cmd = NoCmd
  /\ inflight = {PollReq(agentId)}
  /\ executing = {}
  /\ timer = NoTimer
  /\ pollBit = 1
  /\ regFails = 0
  /\ pollFails = 0
  /\ delivered = MaxCmds - 1
  /\ submitted = <<>>
  /\ idx = 0
  /\ obj = Null
  /\ liveObj = Null
  /\ results = <<>>
  /\ logs = <<>>
  /\ cluster \in InitialClusters
  /\ k8sReqs = <<>>
  /\ threw = {}
  /\ writes = {}
  /\ sigAt = "none"
  /\ pending = {}
  /\ resources = <<>>
  /\ docs = <<>>
  /\ fetched = <<>>
  /\ liveArg = Null
  /\ desiredArg = Null
  /\ outArg = <<>>

NextApply ==
  \/ \E c \in ApplyCommands : PollCommand(c)
  \/ ExecApplyManifest
  \/ ReadFound
  \/ ReadThrew
  \/ PatchResolved
  \/ CreateResolved
  \/ MutationThrew
  \/ DiffThrew

SpecApply == InitApply /\ [][NextApply]_vars

\* The same with other clients writing the resources of the manifests.
\* The batches are of manifests the loop gets past: documents and scalars.
RaceTexts == {PlainText} \cup {TextOf(d) : d \in Documents}
RaceCommands ==
  {ApplyCommand(Arr(m), d) :
     m \in UNION {[1..k -> RaceTexts] : k \in 0..MaxBatch}, d \in {True, False}}
NextRace ==
  \/ \E c \in RaceCommands : PollCommand(c)
  \/ ExecApplyManifest
  \/ ReadFound
  \/ ReadThrew
  \/ PatchResolved
  \/ CreateResolved
  \/ MutationThrew
  \/ DiffThrew
  \/ \E what \in WriteKinds : ExternalWrite(what)
\* The resources of the cluster start all absent, all at an older version,
\* or all at the version of the manifests.
RaceClusters ==
  {f \in InitialClusters :
     \E V \in {{Absent}, {OldVersion(d) : d \in DefaultedDocuments},
               {Stored(d) : d \in DefaultedDocuments}} :
       \A k \in ResourceKeys : f[k] \in V}
InitRace == InitApply /\ cluster \in RaceClusters
SpecRace == InitRace /\ [][NextRace]_vars

\* One list_resources or get_manifests command handed to a registered agent
\* whose poll is in flight.
QueryCommands == {ListCommand} \cup GetCommands
NextQuery ==
  \/ \E c \in QueryCommands : PollCommand(c)
  \/ ExecListResources
  \/ \E k \in Fetchers, r \in ListResponses : FetcherResolved(k, r)
  \/ \E k \in Fetchers : FetcherThrew(k)
  \/ ExecGetManifests
  \/ \E raw \in UNION {RawObjects(i) : i \in RequestItems} : ManifestFetched(raw)
  \/ ManifestFetchThrew

SpecQuery == InitApply /\ [][NextQuery]_vars

\* One get_logs command handed to a registered agent whose poll is in flight.
NextLogs ==
  \/ \E c \in LogsCommands : PollCommand(c)
  \/ ExecGetLogs
  \/ \E log \in LogResponses : PodLogResolved(log)
  \/ LogsCallThrew
  \/ \E r \in PodLists : PodListResolved(r)
  \/ \E log \in LogResponses : EachLogResolved(log)
  \/ EachLogThrew

\* One command of any of the types with requests per item.  The queries
\* read none of the resources the manifests name: they run with none stored.
NoneStored == \A k \in ResourceKeys : cluster[k] = Absent
NextItems ==
  \/ NextApply
  \/ NoneStored /\ NextQuery
  \/ NoneStored /\ NextLogs
SpecItems == InitApply /\ [][NextItems]_vars

\* ------------------------------------------- the diff engine on its own
\* Documents as the calls of lines 196-198 and 217-218 may get them.
Num(n) == <<"num", n>>
Bool(b) == <<"bool", b>>
Containers ==
  Arr(<< Map(<< <<"name", Str("app")>>, <<"image", Str("LONG-A")>> >>),
         Map(<< <<"name", Str("sidecar")>>, <<"ports", Arr(<<Num(80)>>)>> >>) >>)
DeploymentDoc ==
  Map(<< <<"apiVersion", Str("apps/v1")>>,
         <<"kind", Str("Deployment")>>,
         <<"metadata",
           Map(<< <<"name", Str("web")>>,
                  <<"uid", Str("uid")>>,
                  <<"annotations", Map(<< <<LastApplied, Str("LONG-B")>>,
                                          <<"note", Str("x")>> >>)>>,
                  <<"labels", Map(<< <<"app.kubernetes.io/name", Str("web")>> >>)>> >>)>>,
         <<"spec",
           Map(<< <<"replicas", Num(1)>>,
                  <<"paused", Bool(FALSE)>>,
                  <<"strategy", Null>>,
                  <<"template", Map(<< <<"spec", Map(<< <<"containers", Containers>> >>)>> >>)>> >>)>>,
         <<"status", Map(<< <<"readyReplicas", Num(1)>> >>)>> >>)
\* only server-managed content below metadata, and empty collections
BareDoc ==
  Map(<< <<"kind", Str("Service")>>,
         <<"metadata",
           Map(<< <<"managedFields", Arr(<<Map(<< <<"manager", Str("kubectl")>> >>)>>)>>,
                  <<"annotations", Map(<< <<Revision, Str("3")>> >>)>>,
                  <<"labels", Map(<<>>)>> >>)>>,
         <<"spec", Map(<< <<"selector", Map(<<>>)>>,
                          <<"ports", Arr(<<>>)>>,
                          <<"generation", Num(2)>> >>)>> >>)
\* metadata and annotations that are sequences, and a sequence at the root
OddDoc ==
  Map(<< <<"metadata", Arr(<<Str("x")>>)>>,
         <<"annotations", Arr(<<Str("a"), Null>>)>> >>)
\* maps in maps, no sequence: leaves four and five levels below the root,
\* and one six levels below it
NestedDoc ==
  Map(<< <<"kind", Str("Ingress")>>,
         <<"metadata",
           Map(<< <<"name", Str("web")>>,
                  <<"resourceVersion", Str("7")>>,
                  <<"labels", Map(<< <<"tier", Str("x")>> >>)>> >>)>>,
         <<"spec",
           Map(<< <<"rules", Map(<<>>)>>,
                  <<"backend",
                    Map(<< <<"service",
                             Map(<< <<"name", Str("web")>>,
                                    <<"weight", Null>> >>)>> >>)>> >>)>> >>)
DeepDoc ==
  Put(NestedDoc, "spec",
      Map(<< <<"a", Map(<< <<"b", Map(<< <<"c", Map(<< <<"d",
               Map(<< <<"e", Num(1)>>, <<"f", Num(2)>> >>)>> >>)>> >>)>> >>)>>,
             <<"g", Map(<< <<"h", Map(<< <<"i", Map(<< <<"j", Num(1)>> >>)>> >>)>> >>)>> >>))
RootList == Arr(<<Str("x"), Num(1), Arr(<<Bool(TRUE)>>), Map(<< <<"k", Null>> >>)>>)
DiffDocs ==
  {DeploymentDoc, BareDoc, OddDoc, NestedDoc, DeepDoc, RootList, DocA,
   Stored(DocA), Map(<<>>),
   Str("x"), Null}
ScalarValues == {Str("x"), Str("LONG-B"), Num(2), Bool(TRUE), Null}

\* the paths of the scalar fields of a document, in the notation of the
\* change lines
RECURSIVE ScalarPaths(_, _)
ScalarPaths(v, path) ==
  CASE IsMap(v) ->
         UNION {ScalarPaths(v[2][i][2], Append(path, <<"k", v[2][i][1]>>)) :
                  i \in 1..Len(v[2])}
    [] IsArr(v) ->
         UNION {ScalarPaths(v[2][i], Append(path, <<"i", i - 1>>)) : i \in 1..Len(v[2])}
    [] IsScalar(v) \/ v = Null -> {path}
    [] OTHER -> {}
RECURSIVE GetAt(_, _)
GetAt(v, path) ==
  IF path = <<>> THEN v
  ELSE IF Head(path)[1] = "k" THEN GetAt(Get(v, Head(path)[2]), Tail(path))
  ELSE GetAt(v[2][Head(path)[2] + 1], Tail(path))
RECURSIVE SetAt(_, _, _)
SetAt(v, path, w) ==
  IF path = <<>> THEN w
  ELSE IF Head(path)[1] = "k"
    THEN Put(v, Head(path)[2], SetAt(Get(v, Head(path)[2]), Tail(path), w))
  ELSE Arr([j \in 1..Len(v[2]) |->
              IF j = Head(path)[2] + 1 THEN SetAt(v[2][j], Tail(path), w)
              ELSE v[2][j]])
\* the documents that differ from d in the value of one scalar field
OneFieldChanged(d) ==
  {SetAt(d, p, w) : p \in ScalarPaths(d, <<>>), w \in ScalarValues} \ {d}

\* no command is running: the state of the loop while a function of the
\* diff engine is called on its own
Idle ==
  /\ agentId = "agent-1"
  /\ cpAgent = "agent-1"
  /\ running = TRUE
  /\ cmd = NoCmd
  /\ inflight = {}
  /\ executing = {}
  /\ timer = NoTimer
  /\ pollBit = 1
  /\ regFails = 0
  /\ pollFails = 0
  /\ delivered = MaxCmds
  /\ submitted = <<>>
  /\ idx = 0
  /\ obj = Null
  /\ liveObj = Null
  /\ results = <<>>
  /\ logs = <<>>
  /\ cluster = [k \in ResourceKeys |-> Absent]
  /\ k8sReqs = <<>>
  /\ threw = {}
  /\ writes = {}
  /\ sigAt = "none"
  /\ pending = {}
  /\ resources = <<>>
  /\ docs = <<>>
  /\ fetched = <<>>
InitDiff ==
  /\ Idle
  /\ pc = "call"
  /\ liveArg \in DiffDocs
  /\ desiredArg \in DiffDocs \cup OneFieldChanged(liveArg)
  /\ outArg = <<>>

diffFrame == <<agentId, running, cmd, inflight, executing, timer, pollBit,
               regFails, pollFails, delivered, cpAgent, submitted, sigAt,
               applyVars, queryVars, cluster, k8sReqs, threw, writes>>
\* deepDiff(live, desired, '', diffLines), as at line 198
DeepDiffCall ==
  /\ pc = "call"
  /\ pc' = "deepDiff"
  /\ outArg' = deepDiff(liveArg, desiredArg, <<>>, <<>>)
  /\ UNCHANGED <<liveArg, desiredArg, diffFrame>>
\* cleanForDiff(obj) and summarizeObject(cleaned, '', diffLines), as at
\* lines 217-218
SummarizeCall ==
  /\ pc = "call"
  /\ pc' = "summarizeObject"
  /\ outArg' = summarizeObject(cleanForDiff(desiredArg), <<>>, <<>>)
  /\ UNCHANGED <<liveArg, desiredArg, diffFrame>>
\* cleanForDiff(obj), as at line 197, and cleanForDiff of what it returned;
\* its statements assign to the new objects only
CleanForDiffCall ==
  /\ pc = "call"
  /\ pc' = "cleanForDiff"
  /\ outArg' = cleanForDiff(desiredArg)
  /\ UNCHANGED <<liveArg, desiredArg, diffFrame>>
CleanForDiffAgain ==
  /\ pc = "cleanForDiff"
  /\ pc' = "cleanForDiff2"
  /\ outArg' = cleanForDiff(outArg)
  /\ UNCHANGED <<liveArg, desiredArg, diffFrame>>
\* cleanManifest(raw), as at line 139, and cleanManifest of what it
\* returned; its deletes act on the copies { ...obj } and { ...metadata }
CleanManifestCall ==
  /\ pc = "call"
  /\ IsMap(desiredArg)
  /\ pc' = "cleanManifest"
  /\ outArg' = cleanManifest(desiredArg)
  /\ UNCHANGED <<liveArg, desiredArg, diffFrame>>
CleanManifestAgain ==
  /\ pc = "cleanManifest"
  /\ pc' = "cleanManifest2"
  /\ outArg' = cleanManifest(outArg)
  /\ UNCHANGED <<liveArg, desiredArg, diffFrame>>
\* lines 164-174 on the object a manifest parsed to, for a request with the
\* namespace of the commands here; the metadata is a map, a scalar or absent
DefaultMetadataCall ==
  /\ pc = "call"
  /\ IsMap(desiredArg)
  /\ ~IsArr(Get(desiredArg, "metadata"))
  /\ pc' = "defaultMetadata"
  /\ outArg' = defaultMetadata(desiredArg,
                                Get(Get(desiredArg, "metadata"), "name"),
                                Namespace)
  /\ UNCHANGED <<liveArg, desiredArg, diffFrame>>
\* lines 196-198 for a live object and the object of a manifest:
\* deepDiff(cleanForDiff(liveObj), cleanForDiff(obj), '', diffLines)
DryRunDiffCall ==
  /\ pc = "call"
  /\ IsMap(liveArg)
  /\ IsMap(desiredArg)
  /\ pc' = "dryRunDiff"
  /\ outArg' = deepDiff(cleanForDiff(liveArg), cleanForDiff(desiredArg), <<>>, <<>>)
  /\ UNCHANGED <<liveArg, desiredArg, diffFrame>>
NextDiff ==
  \/ DeepDiffCall
  \/ DryRunDiffCall
  \/ DefaultMetadataCall
  \/ SummarizeCall
  \/ CleanForDiffCall
  \/ CleanForDiffAgain
  \/ CleanManifestCall
  \/ CleanManifestAgain

SpecDiff == InitDiff /\ [][NextDiff]_vars

\* The diff engine called on its own, and called by apply_manifest.
InitEngine == InitDiff \/ InitApply
NextEngine == NextDiff \/ NextApply
SpecEngine == InitEngine /\ [][NextEngine]_vars

\* The loop under the scheduling the runtime guarantees: every call or
\* timer main() awaits settles eventually, one way or another (the signal
\* need never arrive).
RegisterSettles == RegisterThrew \/ \E id \in ReturnedIds : RegisterResolved(id)
PollSettles ==
  \/ PollNoCommand
  \/ PollNotOk
  \/ PollThrew
  \/ \E c \in LoopCommands : PollCommand(c)
Dispatched == ExecListNamespaces \/ ExecUnknown \/ ExecApplyManifest
ListNamespaceSettles == ListNamespaceResolved \/ ListNamespaceThrew
ReadSettles == ReadFound \/ ReadThrew
MutationSettles == PatchResolved \/ CreateResolved \/ MutationThrew \/ DiffThrew
SubmitSettles == SubmitResolved \/ SubmitRejected
SubmitCatchSettles == SubmitCatchResolved \/ SubmitCatchRejected
FairSpec ==
  /\ Spec
  /\ WF_vars(GetCodeSettled)
  /\ WF_vars(RegisterSettles)
  /\ WF_vars(RegDelayElapsed)
  /\ WF_vars(PollSettles)
  /\ WF_vars(BackoffElapsed)
  \* weak fairness of Dispatched, which is enabled exactly at "dispatch"
  /\ ([]<>(pc # "dispatch") \/ []<><<Dispatched>>_vars)
  /\ WF_vars(ListNamespaceSettles)
  /\ WF_vars(ReadSettles)
  \* weak fairness of MutationSettles, enabled exactly at "patch"/"create"
  /\ ([]<>(pc \notin {"patch", "create"}) \/ []<><<MutationSettles>>_vars)
  /\ WF_vars(SubmitSettles)
  /\ WF_vars(SubmitCatchSettles)

\* ------------------------------------------------------------ properties
Statuses == {"completed", "failed"}
ResultsInFlight == {r \in inflight : r.kind = "result"}
PollsInFlight == {r \in inflight : r.kind = "poll"}
\* main() is between the return of a poll and the next top of the loop
CycleOver == delivered > 0 /\ cmd = NoCmd

\* C1: for every command returned by a poll the loop sends exactly one
\* result request, 'completed' or 'failed': never more than one while the
\* cycle runs, and exactly one once the cycle is over, also when
\* executeCommand throws and when the request itself fails.
C1_ExactlyOneSubmission ==
  /\ Len(submitted) <= 1
  /\ \A i \in 1..Len(submitted) : submitted[i] \in Statuses
  /\ CycleOver => Len(submitted) = 1

\* C2: an apply_manifest command of N manifest texts of which exactly one
\* is malformed returns a batch result of N outcomes, the malformed one
\* with success = false and each of the others for its own manifest.
Manifests == cmd.payload.manifests[2]
ExactlyOneMalformed ==
  /\ cmd # NoCmd
  /\ cmd.type = "apply_manifest"
  /\ IsArr(cmd.payload.manifests)
  /\ Cardinality({i \in 1..Len(Manifests) : Malformed(Manifests[i])}) = 1
Settled == pc \in {"submit", "submitCatch"}
C2_BatchIsolation ==
  (Settled /\ ExactlyOneMalformed) =>
    \A r \in ResultsInFlight :
      /\ r.status = "completed"
      /\ Len(r.result.results) = Len(Manifests)
      /\ \A i \in 1..Len(Manifests) :
           Malformed(Manifests[i]) => ~r.result.results[i].success

\* C3 (as stated, and as amended).  The outcomes the batch has recorded: the
\* local results while the loop runs, the results of the batch result once
\* executeCommand has returned, none when it threw.
ApplyPcs == {"read", "patch", "create"}
Completed == {r \in ResultsInFlight : r.status = "completed"}
LabelOf(text) == resourceLabel(yaml_load(text).value)
IsPrefix(a, b) == Len(a) <= Len(b) /\ SubSeq(b, 1, Len(a)) = a
\* the batch result holds one outcome per manifest, in batch order, and the
\* manifests of which a step in `steps` threw have success = false with the
\* message of the error
FailuresReported(steps) ==
  (Settled /\ cmd.type = "apply_manifest") =>
    \A r \in Completed :
      /\ Len(r.result.results) = Len(Manifests)
      /\ \A i \in 1..Len(Manifests) :
           r.result.results[i].resource = LabelOf(Manifests[i])
      /\ \A e \in threw :
           e[2] \in steps =>
             /\ ~r.result.results[e[1]].success
             /\ r.result.results[e[1]].error = e[3]
\* a step of `steps` that throws for manifest idx appends exactly one
\* failure for it after the outcomes recorded so far, the loop goes on, and
\* the error does not become the command's error
FailureRecorded(steps) ==
  \A e \in threw' \ threw :
    e[2] \in steps =>
      /\ e[1] = idx
      /\ Len(results) = idx - 1
      /\ \A r \in {q \in inflight' : q.kind = "result"} : StrOf(r.error) # e[3]
      /\ pc' \in ApplyPcs =>
           /\ IsPrefix(results, results')
           /\ Len(results') >= idx
           /\ results'[idx] = Failure(LabelOf(Manifests[idx]), e[3])
           /\ idx' > idx
      /\ \A r \in {q \in inflight' : q.kind = "result" /\ q.status = "completed"} :
           /\ IsPrefix(results, r.result.results)
           /\ Len(r.result.results) >= idx
           /\ r.result.results[idx] = Failure(LabelOf(Manifests[idx]), e[3])
\* outcomes already recorded never change
OutcomesKept ==
  (pc \in ApplyPcs /\ pc' \in ApplyPcs) => IsPrefix(results, results')
AllSteps == {"read", "patch", "create", "diff"}
MutationSteps == {"patch", "create", "diff"}

Mutations == {i \in 1..Len(k8sReqs) : k8sReqs[i].op \in {"patch", "create"}}
InApply == cmd # NoCmd /\ cmd.type = "apply_manifest"
C4_DryRunLeavesCluster ==
  /\ [](InApply =>
          \A i \in Mutations :
            k8sReqs[i].dryRun = (IF cmd.payload.dryRun = True THEN "All"
                                 ELSE "undefined"))
  /\ [][(InApply /\ cmd.payload.dryRun = True) => cluster' = cluster]_vars
C4_Witness ==
  /\ pc = "submit"
  /\ InApply
  /\ cmd.payload.dryRun = True
  /\ \E i, j \in Mutations : k8sReqs[i].op = "patch" /\ k8sReqs[j].op = "create"
  /\ \A r \in Completed : \A i \in 1..Len(r.result.results) :
       r.result.results[i].success

\* C5: once the shutdown flag is set no new loop iteration starts (no
\* further poll, no further call of register()); a command already
\* received is executed to the end and its result request is sent before
\* main returns; and, the pending calls settling, main returns.
RegisterStarts == pc' = "getCode" /\ pc # "getCode"
PollIssued == pollBit' # pollBit
C5_GracefulShutdown ==
  /\ [][~running => (~PollIssued /\ ~RegisterStarts)]_vars
  /\ [](pc = "stopped" =>
          /\ ~running
          /\ executing = {}
          /\ inflight = {}
          /\ cmd = NoCmd
          /\ delivered > 0 => Len(submitted) >= 1)
  /\ [][delivered' # delivered => (delivered = 0 \/ Len(submitted) >= 1)]_vars
  /\ (~running ~> pc = "stopped")
C5_Witness ==
  /\ pc = "stopped"
  /\ sigAt \in {"dispatch", "listNamespace", "read", "patch", "create"}
  /\ Len(submitted) >= 1

\* C6: every poll that fails, by an exception or by a non-success response
\* status, is followed by the fixed backoff delay before the next poll is
\* issued: the step that ends a failed poll issues no poll, and a poll
\* issued after a failed poll is issued by the end of the backoff.
C6_FailedPollBacksOff ==
  /\ [][pollFails' > pollFails => ~PollIssued]_vars
  /\ [][(PollIssued /\ pollFails' > 0) => (pc = "backoff" /\ timer = PollBackoff)]_vars

\* C7: a registration attempt that fails is followed by the 5-second delay
\* and, the flag not being set, by another attempt, however many attempts
\* have failed before; while no identity is set main is in the registration
\* loop, or has returned because of the shutdown flag.
RegistrationPcs == {"getCode", "register", "regDelay"}
C7_RegistrationRetries ==
  /\ [][regFails' > regFails =>
          /\ pc = "register"
          /\ pc' = "regDelay"
          /\ timer' = RegRetryDelay
          /\ agentId' = NoId]_vars
  /\ [][(pc = "regDelay" /\ pc' # "regDelay") =>
          /\ timer = RegRetryDelay
          /\ pc' = IF running THEN "getCode" ELSE "stopped"]_vars
  /\ [](agentId = NoId => pc \in RegistrationPcs \cup {"stopped"})
  /\ []((agentId = NoId /\ pc = "stopped") => ~running)
  /\ ((pc = "regDelay" /\ running) ~> (pc = "register" \/ ~running))
C7_Witness ==
  /\ pc = "register"
  /\ regFails = MaxRegFails
  /\ running
  /\ agentId = NoId

\* C8: agentId is unset until register() returns an identity, is then the
\* identity the control plane returned, and never changes afterwards; once
\* it is set no register request is sent, whatever the polls do.
C8_IdentitySetOnce ==
  /\ [](agentId = cpAgent)
  /\ [][agentId # NoId => agentId' = agentId]_vars
  /\ [][agentId' # agentId => (pc = "register" /\ RegisterReq \in inflight)]_vars
  /\ [](agentId # NoId =>
          /\ pc \notin RegistrationPcs
          /\ RegisterReq \notin inflight)
C8_Witness ==
  /\ agentId # NoId
  /\ pollFails = MaxPollFails
  /\ pc = "poll"
  /\ delivered > 0

\* C9: no error ends the poll loop: a poll error, an exception of
\* executeCommand and a failed result request (that of the exception
\* handler included) lead to the handler's request or to the backoff, and
\* from there to the next poll unless the shutdown flag is set; main
\* returns only when the flag is set.
MainPcs ==
  RegistrationPcs \cup
    {"poll", "dispatch", "listNamespace", "read", "patch", "create", "submit",
     "submitCatch", "backoff", "stopped"}
LoopTop == IF running THEN "poll" ELSE "stopped"
C9_LoopSurvivesErrors ==
  /\ [](pc \in MainPcs)
  /\ [](pc = "stopped" => ~running)
  /\ [][(pc = "poll" /\ pollFails' > pollFails) => pc' \in {"backoff", LoopTop}]_vars
  /\ [][(executing # {} /\ executing' = {}) => pc' \in {"submit", "submitCatch"}]_vars
  /\ [][(pc = "submit" /\ pc' # "submit") => pc' \in {"submitCatch", LoopTop}]_vars
  /\ [][(pc = "submitCatch" /\ pc' # "submitCatch") => pc' \in {"backoff", LoopTop}]_vars
  /\ [][(pc = "backoff" /\ pc' # "backoff") => pc' = LoopTop]_vars
  /\ (pc \in {"submit", "submitCatch", "backoff"} ~> pc \in {"poll", "stopped"})
C9_Witness ==
  /\ pc = "backoff"
  /\ pollFails = 0
  /\ running
  /\ Len(submitted) = 2
  /\ executing = {}

\* C10: at most one command is executing and at most one request to the
\* control plane is in flight; a command starts executing only when a poll
\* returns it, to a registered agent; a result request is sent only for the
\* command that was executing; and a poll is issued only when no command is
\* executing and no result request is in flight.
C10_StrictOrdering ==
  /\ [](Cardinality(executing) <= 1 /\ Cardinality(inflight) <= 1)
  /\ [](executing # {} =>
          /\ executing = {cmd.id}
          /\ inflight = {}
          /\ agentId # NoId)
  /\ [](PollsInFlight # {} => (executing = {} /\ cmd = NoCmd))
  /\ [][(executing' # {} /\ executing' # executing) =>
          /\ pc = "poll"
          /\ executing = {}
          /\ PollsInFlight # {}]_vars
  /\ [][(ResultsInFlight' # {} /\ ResultsInFlight' # ResultsInFlight) =>
          /\ \A r \in ResultsInFlight' : r.commandId = cmd.id
          /\ executing # {} \/ pc = "submit"
          /\ executing' = {}]_vars
  /\ [][PollIssued =>
          /\ executing = {}
          /\ executing' = {}
          /\ inflight' = {PollReq(agentId')}]_vars
C10_Witness ==
  /\ delivered = MaxCmds
  /\ pc = "poll"
  /\ Len(submitted) >= 1
  /\ cmd = NoCmd

\* C11: a poll that resolves with a clean "no command" response is followed
\* in the same step by the top of the loop: no timer is started, nothing is
\* executed, no cluster request and no result request is sent, and with the
\* flag not set the next poll is issued at once.
NoCommandStep ==
  /\ pc = "poll"
  /\ running' = running
  /\ delivered' = delivered
  /\ pollFails' = 0
C11_NoCommandRepolls ==
  [][NoCommandStep =>
       /\ timer' = NoTimer
       /\ executing' = {}
       /\ cmd' = NoCmd
       /\ submitted' = submitted
       /\ k8sReqs' = k8sReqs
       /\ cluster' = cluster
       /\ pc' = LoopTop
       /\ running => (PollIssued /\ inflight' = {PollReq(agentId)})]_vars
C11_Witness ==
  /\ pc = "poll"
  /\ running
  /\ delivered = 0
  /\ pollFails = 0
  /\ pollBit = 0
  /\ timer = NoTimer
  /\ inflight = {PollReq(agentId)}

\* C12: whichever list calls fail and in whichever order the calls settle,
\* list_resources returns (it never throws) and only when every fetcher has
\* settled; its result holds, for each kind whose call succeeded, one
\* reference per listed item, each once and in the order listed, and nothing
\* for a kind whose call failed or that was not asked.
InList == cmd # NoCmd /\ cmd.type = "list_resources"
OfKind(res, k) == SelectSeq(res, LAMBDA ref : ref.kind = Catalog[k].kind)
C12_PartialEnumeration ==
  /\ [](InList => pc # "submitCatch")
  /\ []((InList /\ pc = "submit") =>
          \A r \in ResultsInFlight :
            /\ r.status = "completed"
            /\ \A k \in Fetchers :
                 OfKind(r.result[2], k) =
                   IF fetched[k] = Failed THEN <<>>
                   ELSE Refs(k, fetched[k], cmd.payload.namespace)
            /\ \A j \in 1..Len(r.result[2]) :
                 \E k \in Fetchers : r.result[2][j].kind = Catalog[k].kind)
  /\ [][pc = "listResources" =>
          /\ Cardinality(pending \ pending') <= 1
          /\ pc' = "listResources" => IsPrefix(resources, resources')
          /\ pc' # "listResources" => Cardinality(pending) = 1]_vars
C12_Witness ==
  /\ InList
  /\ pc = "submit"
  /\ fetched[1] = Failed
  /\ \E r \in ResultsInFlight :
       /\ Len(r.result[2]) >= 3
       /\ r.result[2][1].kind = Catalog[3].kind
       /\ r.result[2][Len(r.result[2])].kind = Catalog[2].kind

\* C13: a command whose type is no case of the switch causes no cluster
\* request and yields exactly one result request, with status 'failed' and
\* the error "Unknown command type: <type>".
UnknownCmd == cmd # NoCmd /\ cmd.type \notin KnownTypes
C13_UnknownTypeFails ==
  UnknownCmd =>
    /\ k8sReqs = <<>>
    /\ Len(submitted) <= 1
    /\ pc # "dispatch" => Len(submitted) = 1
    /\ \A r \in ResultsInFlight :
         /\ r.status = "failed"
         /\ r.result = Undefined
         /\ r.error = Str("Unknown command type: " \o cmd.type)

\* C14: get_manifests returns (it never throws) the documents of the
\* requested items whose read succeeded, each the cleaned object of its own
\* item, in request order and joined by the separator line; an item whose
\* read throws, or whose kind is no case of the switch, adds nothing and
\* leaves the documents collected so far as they are.
InGet == cmd # NoCmd /\ cmd.type = "get_manifests"
Requested == cmd.payload.resources[2]
Fetches(f) == SelectSeq(f, IsMap)
ExpectedDocs(f) ==
  [j \in 1..Len(Fetches(f)) |-> yaml_dump(cleanManifest(Fetches(f)[j]))]
C14_ManifestsSkipFailures ==
  /\ [](InGet => pc # "submitCatch")
  /\ []((InGet /\ pc = "submit") =>
          /\ Len(fetched) = Len(Requested)
          /\ \A i \in 1..Len(Requested) :
               /\ Requested[i].kind \notin CatalogKinds <=> fetched[i] = Skipped
               /\ IsMap(fetched[i]) =>
                    /\ Get(fetched[i], "kind") = Str(Requested[i].kind)
                    /\ Get(Get(fetched[i], "metadata"), "name") = Str(Requested[i].name)
          /\ \A r \in ResultsInFlight :
               /\ r.status = "completed"
               /\ r.result = <<"text", Join(ExpectedDocs(fetched))>>)
  /\ [][(pc = "readManifest" /\ pc' = "readManifest") =>
          /\ idx' > idx
          /\ IsPrefix(docs, docs')
          /\ docs' = ExpectedDocs(fetched')]_vars
C14_Witness ==
  /\ InGet
  /\ pc = "submit"
  /\ Len(Requested) = 3
  /\ IsMap(fetched[1])
  /\ fetched[2] = Failed
  /\ IsMap(fetched[3])
  /\ \E r \in ResultsInFlight :
       r.result[2] = <<yaml_dump(cleanManifest(fetched[1])), Separator,
                       yaml_dump(cleanManifest(fetched[3]))>>

\* ---------------------------------------------------------------- C15
\* what one step of the loop of apply_manifest left behind: the local
\* results and logs, or those of the completed result it returned
AfterStep ==
  IF pc' \in ApplyPcs
    THEN {[results |-> results', log |-> logs']}
    ELSE {r.result : r \in {q \in inflight' : q.kind = "result"
                                              /\ q.status = "completed"}}
\* client.patch resolved for manifest idx of a dry run and the diff returned
DryPatchStep ==
  /\ pc = "patch"
  /\ pc' # "patch" \/ idx' # idx
  /\ threw' = threw
  /\ dryRunOf(cmd)
\* C15: deepDiff of two deep-equal documents adds no change line; a dry-run
\* patch whose cleaned live snapshot equals the cleaned desired document
\* records a successful outcome with an empty diff, and the log line
\* "(no changes)" follows the line of the action.
C15_NoOpDiffIsEmpty ==
  /\ [](pc = "deepDiff" /\ liveArg = desiredArg => outArg = <<>>)
  /\ [][(DryPatchStep /\ cleanForDiff(liveObj) = cleanForDiff(obj)) =>
          \A r \in AfterStep :
            /\ r.results[idx].success
            /\ r.results[idx].diff = <<>>
            /\ r.log[Len(logs) + 2] = <<"      (no changes)">>
            /\ r.log[Len(logs) + 3] = <<"">>]_vars
\* a dry run recorded an unchanged resource whose live snapshot held
\* server-managed fields the desired document has not
C15_Witness ==
  /\ pc = "read"
  /\ dryRunOf(cmd)
  /\ \E i \in 1..Len(results) :
       /\ results[i].success
       /\ results[i].log[2] = "validated (would update)"
       /\ results[i].diff = <<>>
  /\ \E j \in 1..Len(logs) : logs[j] = <<"      (no changes)">>
  /\ \E k \in ResourceKeys :
       /\ IsMap(cluster[k])
       /\ cluster[k] # cleanForDiff(cluster[k])
\* ---------------------------------------------------------------- C16
\* C16: when the desired document is the live document with another value
\* in one scalar field, deepDiff returns exactly one line: the modify line
\* with the path of that field from the root and the two values.
C16_OneFieldOneModify ==
  pc = "deepDiff" =>
    \A p \in ScalarPaths(liveArg, <<>>), w \in ScalarValues :
      (w # GetAt(liveArg, p) /\ desiredArg = SetAt(liveArg, p, w)) =>
        outArg = << <<"~", p, formatValue(GetAt(liveArg, p))[1],
                      formatValue(w)[1]>> >>
\* the field is below map keys and sequence indices, four levels or more
\* from the root
C16_Witness ==
  /\ pc = "deepDiff"
  /\ Len(outArg) = 1
  /\ outArg[1][1] = "~"
  /\ Len(outArg[1][2]) >= 4
  /\ \E i, j \in 1..Len(outArg[1][2]) :
       outArg[1][2][i][1] = "k" /\ outArg[1][2][j] = <<"i", 1>>
  /\ desiredArg \in OneFieldChanged(liveArg)
\* ---------------------------------------------------------------- C17
CleanPcs == {"cleanForDiff", "cleanForDiff2", "cleanManifest", "cleanManifest2"}
\* C17: cleanForDiff of what cleanForDiff returned is that document again,
\* cleanManifest of what cleanManifest returned is that document again, and
\* the document handed to either call is the same after it.
C17_CleaningIdempotent ==
  [][/\ (pc = "cleanForDiff" /\ pc' = "cleanForDiff2") =>
          outArg = cleanForDiff(desiredArg) /\ outArg' = outArg
     /\ (pc = "cleanManifest" /\ pc' = "cleanManifest2") =>
          outArg = cleanManifest(desiredArg) /\ outArg' = outArg
     /\ pc' \in CleanPcs => desiredArg' = desiredArg]_vars
\* the second cleaning of a document whose first cleaning removed fields at
\* the root, below metadata and among the annotations
C17_Witness ==
  /\ pc = "cleanForDiff2"
  /\ IsMap(desiredArg)
  /\ IsMap(Get(desiredArg, "metadata"))
  /\ IsMap(Get(Get(desiredArg, "metadata"), "annotations"))
  /\ IsMap(Get(Get(outArg, "metadata"), "annotations"))
  /\ HasKey(desiredArg, "status") /\ ~HasKey(outArg, "status")
  /\ HasKey(Get(desiredArg, "metadata"), "uid")
  /\ ~HasKey(Get(outArg, "metadata"), "uid")
  /\ Len(Get(Get(outArg, "metadata"), "annotations")[2])
       < Len(Get(Get(desiredArg, "metadata"), "annotations")[2])
\* ---------------------------------------------------------------- C18
\* the paths of the leaf fields of a document of maps: the fields whose
\* value is not a map with fields of its own
RECURSIVE LeafPaths(_, _)
LeafPaths(v, path) ==
  IF IsMap(v) /\ Len(v[2]) > 0
    THEN UNION {LeafPaths(v[2][i][2], Append(path, <<"k", v[2][i][1]>>)) :
                  i \in 1..Len(v[2])}
    ELSE {path}
FieldLeaves(doc) == IF IsMap(doc) THEN LeafPaths(doc, <<>>) \ {<<>>} ELSE {}
RECURSIVE HasSequence(_)
HasSequence(v) ==
  \/ IsArr(v)
  \/ IsMap(v) /\ \E i \in 1..Len(v[2]) : HasSequence(v[2][i][2])
\* a document of maps nested at most four levels deep
Shallow(doc) ==
  /\ IsMap(doc)
  /\ ~HasSequence(doc)
  /\ \A p \in FieldLeaves(doc) : Len(p) <= 4
\* all lines are add lines, one for each leaf field of doc
OnePerLeaf(lines, doc) ==
  /\ \A i \in 1..Len(lines) : lines[i][1] = "+"
  /\ Len(lines) = Cardinality(FieldLeaves(doc))
  /\ \A p \in FieldLeaves(doc) :
       \E i \in 1..Len(lines) :
         lines[i] = <<"+", p, formatValue(GetAt(doc, p))[1]>>
\* client.create resolved for manifest idx of a dry run and the summary
\* returned
DryCreateStep ==
  /\ pc = "create"
  /\ pc' # "create" \/ idx' # idx
  /\ threw' = threw
  /\ dryRunOf(cmd)
NamespaceLine ==
  <<"+", << <<"k", "metadata">>, <<"k", "namespace">> >>,
    formatValue(cmd.payload.namespace)[1]>>
Reads == {i \in 1..Len(k8sReqs) : k8sReqs[i].op = "read"}
\* manifest i parses to a map
Parsed(i) == IsMap(yaml_load(Manifests[i]).value)
\* the loop cannot get past manifest i: lines 162-163 throw outside the try
Unparseable(i) ==
  yaml_load(Manifests[i]).threw \/ IsNullish(yaml_load(Manifests[i]).value)
\* the manifests the loop has taken up so far
Reached ==
  {i \in 1..Len(Manifests) :
     /\ pc \in ApplyPcs => i <= idx
     /\ \A j \in 1..(i - 1) : ~Unparseable(j)}
\* the map manifests among them, in batch order
ReachedMaps ==
  SelectSeq([i \in 1..Len(Manifests) |-> i],
            LAMBDA i : i \in Reached /\ Parsed(i))
KeyOf(i) ==
  LET o == yaml_load(Manifests[i]).value
  IN  ResourceKey(defaultMetadata(o, Get(Get(o, "metadata"), "name"),
                                  cmd.payload.namespace[2]))
\* the read of a manifest is followed by one patch or create for the same
\* resource, and by nothing else before the next read
Paired ==
  \A j \in 1..Len(k8sReqs) :
    IF j % 2 = 1
      THEN /\ k8sReqs[j].op = "read"
           /\ k8sReqs[j].key = KeyOf(ReachedMaps[(j + 1) \div 2])
      ELSE /\ k8sReqs[j].op \in {"patch", "create"}
           /\ k8sReqs[j].key = k8sReqs[j - 1].key
\* the read settles: a patch follows a live object, a create follows a read
\* that threw, and nothing is recorded for the manifest yet
ReadDecides ==
  (pc = "read" /\ pc' # "read") =>
    /\ k8sReqs' = Append(k8sReqs,
                         K8sReq(IF threw' = threw THEN "patch" ELSE "create",
                                Key, dryRunParam(cmd)))
    /\ threw' = threw <=> IsMap(liveObj')
    /\ pc' = IF threw' = threw THEN "patch" ELSE "create"
    /\ results' = results
    /\ logs' = logs
\* no outcome carries the error of a read
ReadErrorsUnreported ==
  /\ \A i \in 1..Len(results) : results[i].error # "not found"
  /\ \A r \in Completed :
       \A i \in 1..Len(r.result.results) :
         r.result.results[i].error # "not found"

ExecutionEnds ==
  pc \notin {"submit", "submitCatch"} /\ pc' \in {"submit", "submitCatch"}
\* C20: when executeCommand returns without an error the result request is
\* 'completed' with the result, when it returns an error or throws the
\* request is 'failed' with the message; and no command with a 'completed'
\* request gets a 'failed' one.
C20_StatusReflectsOutcome ==
  /\ [][ExecutionEnds =>
          /\ Len(submitted') = Len(submitted) + 1
          /\ \A r \in {q \in inflight' : q.kind = "result"} :
               /\ r.status = submitted'[Len(submitted')]
               /\ pc' = "submitCatch" => r.status = "failed"
               /\ r.status = "failed" <=> Truthy(r.error)
               /\ r.status = "failed" => r.result = Undefined]_vars
  /\ [](\A i, j \in 1..Len(submitted) :
          i < j => ~(submitted[i] = "completed" /\ submitted[j] = "failed"))
\* ---------------------------------------------------------------- C21
\* the command is one whose cluster calls are per item, and what ends it
\* is not a failure of something else: every manifest of an apply batch can
\* be parsed, and get_logs has no pod name and its list of pods arrived
ItemFailuresOnly ==
  \/ cmd.type \in {"list_resources", "get_manifests"}
  \/ /\ cmd.type = "apply_manifest"
     /\ \A i \in 1..Len(Manifests) : ~Unparseable(i)
  \/ /\ cmd.type = "get_logs"
     /\ ~Truthy(cmd.payload.podName)
     /\ pc # "listPods" \/ pc' # "submitCatch"
\* C21: whatever per-item calls of list_resources, get_manifests,
\* apply_manifest or get_logs (all pods) fail, executeCommand returns a
\* result and no error, and the result request is 'completed'; the pods
\* in the result of get_logs are pods whose log arrived.
C21_ItemFailuresFolded ==
  [][(ExecutionEnds /\ ItemFailuresOnly) =>
       /\ pc' = "submit"
       /\ submitted' = Append(submitted, "completed")
       /\ \A r \in {q \in inflight' : q.kind = "result"} :
            /\ r.status = "completed"
            /\ r.error = Undefined
            /\ cmd.type = "get_logs" =>
                 Len(r.result.pods)
                   <= Len(SelectSeq(fetched', LAMBDA f : f[1] = "text"))]_vars
\* get_logs for all pods is over: the log of every named pod failed, and
\* the result is 'completed' with no pods
C21_Witness ==
  /\ pc = "submit"
  /\ cmd.type = "get_logs"
  /\ fetched = <<Failed, Skipped, Failed>>
  /\ \E r \in Completed : r.result.pods = <<>>
\* ---------------------------------------------------------------- C22
Present(v) == ~IsNullish(v)
MetaField(doc, k) == Get(Get(doc, "metadata"), k)
\* the document after lines 169-174 has the namespace of the manifest, or
\* that of the request when the manifest has none
NamespaceDefaulted ==
  pc = "defaultMetadata" =>
    MetaField(outArg, "namespace") =
      (IF Present(MetaField(desiredArg, "namespace"))
         THEN MetaField(desiredArg, "namespace") ELSE Str(Namespace))
\* C22: the document sent to the cluster has the manifest's namespace or
\* else the request's, and the manifest's name or else the placeholder
\* 'unnamed', also when the manifest has metadata without a name or no
\* metadata.
C22_NameAndNamespaceDefaulted ==
  /\ NamespaceDefaulted
  /\ pc = "defaultMetadata" =>
       MetaField(outArg, "name") =
         (IF Present(MetaField(desiredArg, "name"))
            THEN MetaField(desiredArg, "name") ELSE Str("unnamed"))
\* ---------------------------------------------------------------- C23
\* a document without status, without the server-managed metadata fields,
\* without the two injected annotations and without an empty annotations
\* or labels map
EmptyMap(v) == IsMap(v) /\ Len(v[2]) = 0
Stripped(doc) ==
  /\ ~HasKey(doc, "status")
  /\ IsMap(Get(doc, "metadata")) =>
       /\ \A k \in MetaManaged : ~HasKey(Get(doc, "metadata"), k)
       /\ IsMap(MetaField(doc, "annotations")) =>
            /\ ~HasKey(MetaField(doc, "annotations"), LastApplied)
            /\ ~HasKey(MetaField(doc, "annotations"), Revision)
       /\ ~EmptyMap(MetaField(doc, "annotations"))
       /\ ~EmptyMap(MetaField(doc, "labels"))
\* C23: what cleanForDiff returns for a resource document, and what
\* cleanManifest returns for it, is a stripped document.
C23_CleaningStrips ==
  (pc \in {"cleanForDiff", "cleanManifest"} /\ IsMap(outArg)) => Stripped(outArg)
\* ---------------------------------------------------------------- C24
\* C24: a poll request in flight carries the identity a registration
\* returned, and agentId is that identity; a poll is only issued with the
\* identity set; when the shutdown flag is set during registration, no
\* poll is ever issued, no command received or executed and no result
\* sent, and main returns.
C24_PollOnlyWithIdentity ==
  /\ [](\A r \in PollsInFlight :
          /\ agentId \in AgentIds
          /\ agentId = cpAgent
          /\ r = PollReq(agentId))
  /\ [][PollIssued => agentId' \in AgentIds]_vars
  /\ [](sigAt \in RegistrationPcs =>
          /\ ~running
          /\ pc \in RegistrationPcs \cup {"stopped"}
          /\ PollsInFlight = {}
          /\ ResultsInFlight = {}
          /\ pollBit = 0
          /\ cmd = NoCmd
          /\ executing = {}
          /\ delivered = 0
          /\ submitted = <<>>)
  /\ (sigAt \in RegistrationPcs ~> pc = "stopped")
\* the flag was set while a failed registration waited for its retry, and
\* main has returned without an identity and without a poll
C24_Witness ==
  /\ pc = "stopped"
  /\ sigAt = "regDelay"
  /\ regFails > 0
  /\ agentId = NoId
  /\ pollBit = 0
\* ---------------------------------------------------------------- C25
\* another client wrote the resource of manifest i after its read
Raced(i) == \E w \in writes : w[1] = i
\* the patch or create of manifest idx settles, the diff of a dry run
\* returning
RacedMutationSettles ==
  /\ pc \in {"patch", "create"}
  /\ pc' # pc \/ idx' # idx
  /\ \A e \in threw' \ threw : e[2] # "diff"
\* the only request a settling mutation is followed by is the read of a
\* later manifest
NoSecondRequest ==
  \/ k8sReqs' = k8sReqs /\ pc' \notin ApplyPcs
  \/ /\ pc' = "read"
     /\ idx' > idx
     /\ k8sReqs' = Append(k8sReqs, K8sReq("read", KeyOf(idx'), "undefined"))
\* manifest idx gets one outcome after those recorded so far: a success, or
\* a failure with the error of the API server
OneOutcome ==
  \A r \in AfterStep :
    /\ Len(results) = idx - 1
    /\ IsPrefix(results, r.results)
    /\ Len(r.results) >= idx
    /\ r.results[idx].resource = LabelOf(Manifests[idx])
    /\ IF threw' = threw
         THEN r.results[idx].success
         ELSE /\ ~r.results[idx].success
              /\ r.results[idx].error \in ApiErrors
              /\ threw' = threw \cup {<<idx, pc, r.results[idx].error>>}
\* the loop goes on with the manifests after idx: up to the next one that
\* parses to a map, or to the end of the batch
RestProcessed ==
  /\ pc' \in ApplyPcs =>
       /\ idx' > idx
       /\ Parsed(idx')
       /\ \A j \in (idx + 1)..(idx' - 1) : ~Parsed(j)
       /\ Len(results') = idx' - 1
  /\ \A r \in AfterStep :
       pc' \notin ApplyPcs => Len(r.results) = Len(Manifests)
\* C25: when another client creates, changes or deletes the resource of a
\* manifest between its read and the patch or create that follows, that
\* patch or create is the manifest's last request (no second mutation, no
\* second read), the manifest gets exactly one outcome (a success, or a
\* failure with the error of the API server), and the loop goes on with the
\* rest of the batch; the requests of the whole batch stay one read and one
\* mutation per manifest taken up.
C25_RaceOneOutcome ==
  /\ [][(RacedMutationSettles /\ Raced(idx)) =>
          NoSecondRequest /\ OneOutcome /\ RestProcessed]_vars
  /\ []((InApply /\ (Settled \/ pc \in ApplyPcs)) =>
          /\ Len(k8sReqs) = 2 * Len(ReachedMaps)
                              - (IF pc = "read" THEN 1 ELSE 0)
          /\ Paired)
  /\ []((InApply /\ Settled) =>
          \A r \in Completed :
            /\ Len(r.result.results) = Len(Manifests)
            /\ \A w \in writes :
                 r.result.results[w[1]].resource = LabelOf(Manifests[w[1]]))
\* a batch of two is over: the resource of the first manifest was read,
\* another client deleted it, the patch failed with the error of the API
\* server, and the second manifest was read and created all the same
C25_Witness ==
  /\ pc = "submit"
  /\ InApply
  /\ writes = {<<1, "delete">>}
  /\ Len(k8sReqs) = 4
  /\ k8sReqs[2].op = "patch"
  /\ k8sReqs[3].op = "read"
  /\ k8sReqs[4].op = "create"
  /\ \A r \in Completed :
       /\ Len(r.result.results) = 2
       /\ ~r.result.results[1].success
       /\ r.result.results[1].error \in ApiErrors
       /\ r.result.results[2].success
  /\ Completed # {}
\* ---------------------------------------------------------------- C26
\* a document without the map entries whose value is null, at every depth
RECURSIVE DropNulls(_)
DropNulls(v) ==
  CASE IsMap(v) ->
         LET kept == SelectSeq(v[2], LAMBDA kv : kv[2] # Null)
         IN  Map([i \in 1..Len(kept) |-> <<kept[i][1], DropNulls(kept[i][2])>>])
    [] IsArr(v) -> Arr([i \in 1..Len(v[2]) |-> DropNulls(v[2][i])])
    [] OTHER -> v
\* the fields of a resource that are not server-managed: all but the
\* top-level status, the six managed fields of metadata, and the two
\* injected annotations (an annotations map they leave empty counts as
\* absent, and so does a field that is null)
UserAnnotations(meta) ==
  IF IsMap(Get(meta, "annotations"))
    THEN LET ann == DeleteAll(Get(meta, "annotations"), {LastApplied, Revision})
         IN  IF Len(ann[2]) = 0 THEN Delete(meta, "annotations")
             ELSE Put(meta, "annotations", ann)
    ELSE meta
UserFields(doc) ==
  LET top == Delete(doc, "status")
      meta == Get(top, "metadata")
  IN  DropNulls(IF IsMap(meta)
                  THEN Put(top, "metadata",
                           UserAnnotations(DeleteAll(meta, MetaManaged)))
                  ELSE top)
\* the fields that cleanForDiff keeps
ComparedFields(doc) == DropNulls(cleanForDiff(doc))
\* C26: the change plan of a dry-run patch is empty only if the live
\* resource and the desired manifest agree on every field that is not
\* server-managed: a difference in a field of any key name at any depth
\* gives at least one change line.
C26_EmptyPlanMeansEqual ==
  /\ [](pc = "dryRunDiff" /\ outArg = <<>> =>
          UserFields(liveArg) = UserFields(desiredArg))
  /\ [][DryPatchStep =>
          \A r \in AfterStep :
            r.results[idx].diff = <<>> => UserFields(liveObj) = UserFields(obj)]_vars
\* what holds instead: an empty plan means agreement on the fields that
\* cleanForDiff keeps
EmptyPlanMeansComparedEqual ==
  pc = "dryRunDiff" /\ outArg = <<>> =>
    ComparedFields(liveArg) = ComparedFields(desiredArg)
\* the plan is empty although a field of the spec differs
EmptyPlanOverDifference ==
  /\ pc = "dryRunDiff"
  /\ outArg = <<>>
  /\ Get(liveArg, "spec") # Get(desiredArg, "spec")
====
